---- MODULE Spec2Model ----
(***************************************************************************)
(* Verification model of strapi-content-embeddings.                        *)
(*                                                                         *)
(* Part 1: the sync service (server/src/services/sync.ts), which           *)
(* reconciles the Strapi mirror store with the Neon vector store.          *)
(*                                                                         *)
(* Part 2: the text chunker (server/src/utils/chunking.ts), a pure         *)
(* function from a text to its chunks.  A text is a sequence of            *)
(* one-character strings.                                                  *)
(*                                                                         *)
(* Part 3: createChunkedEmbedding of the embeddings service, which writes  *)
(* one mirror entry and one vector row per chunk.                          *)
(*                                                                         *)
(* Conventions: a nullable value is a sequence of length 0 (null) or 1.    *)
(* The vector store is the result of `SELECT ... ORDER BY id`: a sequence  *)
(* of rows in id order.  The mirror store is keyed by documentId: a        *)
(* function whose domain is the set of documentIds that have an entry.     *)
(***************************************************************************)
EXTENDS Integers, Sequences, FiniteSets, TLC

\* ---------------------------------------------------------------- bounds
MaxVec == 2          \* rows in the vector store
MaxRuns == 2         \* syncFromNeon calls made one after the other
MaxLen == 5          \* characters in a text handed to chunkContent
MaxChunkSize == 3    \* largest chunkSize option
MaxCalls == 2        \* calls of the services made one after the other

\* ------------------------------------------------------- bounded domains
DocIds == {"d1", "d2"}
\* The documentIds the mirror store hands out, in the order it hands them out
DocumentIdPool == <<"c1", "c2", "c3", "c4", "c5", "c6", "c7", "c8">>
\* The order in which findMany returns the entries
DocOrder == <<"d1", "d2">> \o DocumentIdPool
\* what a vector row can carry: <<title, content, collectionType, fieldName>>
VecPayloads == {<<"t", "a", "standalone", "content">>, <<"u", "b", "article", "body">>}
\* what a mirror entry can hold at the start: <<title, content, embeddingId>>;
\* the last one is an entry whose embedding was never stored
MirrorPayloads ==
    {<<"t", "a", <<1>>>>, <<"t", "b", <<1>>>>, <<"u", "a", <<1>>>>, <<"u", "b", <<1>>>>,
     <<"t", "a", <<>>>>}

None == <<>>
Some(x) == <<x>>

VARIABLES
    initialized,       \* pluginManager.isInitialized()
    vec,               \* vector store (Neon), rows in id order
    mirror,            \* mirror store (Strapi), documentId -> entry
    pc,                \* position of the running syncFromNeon call
    options,           \* its {removeOrphans, dryRun}
    neonEmbeddings,    \* its snapshot of the vector store
    strapiEmbeddings,  \* its snapshot of the mirror store
    i,                 \* its loop index
    result,            \* its SyncResult
    writes,            \* history: mirror-store writes it issued, in order
    runs,              \* number of syncFromNeon calls started
    prevRun,           \* history: the previous completed call, or None
    status,            \* result of the last getSyncStatus, or None
    entry,             \* history: both stores as the current call found them
    content,           \* chunkContent: the text handed in
    chunkSize,         \* chunkContent: options.chunkSize
    chunkOverlap,      \* chunkContent: options.chunkOverlap
    rawChunks,         \* chunkContent: what splitText returned
    chunksWithOverlap, \* chunkContent: what addOverlap returned
    chunks,            \* chunkContent: the TextChunk[] returned
    cpc,               \* position of the chunkContent call
    frames,            \* splitText: its activations on the call stack
    gpc,               \* position of the running createChunkedEmbedding call
    ck,                \* its loop position in chunks
    parentDocumentId,  \* its parentDocumentId
    createdChunks,     \* its createdChunks
    entity,            \* documentId of the entry its current iteration created
    log,               \* history: the store and provider calls it made, in order
    rawContent,        \* data.data.content as the caller supplied it
    preprocess,        \* config.preprocessContent
    spc,               \* position of the running embeddings-service call
    call,              \* that call: the operation and its arguments
    related,           \* its chunks, as findRelatedChunks returned them
    sk,                \* its loop position in related
    slog,              \* history: the store and provider calls it made, in order
    calls,             \* the calls of the services that have returned or thrown
    updaters,          \* the updateEmbedding calls that run at the same time
    rpc,               \* position of the running pluginManager.createEmbedding
    attempt,           \* its attempt
    docData,           \* its docData
    rlog,              \* history: its attempts, in order
    sessions,          \* MCP: plugin.sessions, each session expired or not
    mcp                \* MCP: the request the controller is handling

syncVars == <<initialized, vec, mirror, pc, options, neonEmbeddings,
              strapiEmbeddings, i, result, writes, runs, prevRun, status, entry>>

chunkerVars == <<content, chunkSize, chunkOverlap, rawChunks, chunksWithOverlap,
                 chunks, cpc, frames>>

groupVars == <<gpc, ck, parentDocumentId, createdChunks, entity, log, rawContent,
              preprocess>>

serviceVars == <<spc, call, related, sk, slog, calls, updaters>>

retryVars == <<rpc, attempt, docData, rlog>>

mcpVars == <<sessions, mcp>>

vars == <<syncVars, chunkerVars, groupVars, serviceVars, retryVars, mcpVars>>

\* ------------------------------------------------------------ the stores

\* A row as getAllNeonEmbeddings returns it
NeonEmbedding(id, sid, p) ==
    [id |-> id, strapiId |-> sid, title |-> p[1], content |-> p[2],
     collectionType |-> p[3], fieldName |-> p[4]]

NeonRows(id) ==
    { NeonEmbedding(id, sid, p) :
        sid \in {None} \cup {Some(d) : d \in DocIds}, p \in VecPayloads }

VecStores ==
    UNION { { s \in [1..n -> UNION {NeonRows(k) : k \in 1..n}] :
                \A k \in 1..n : s[k].id = k } : n \in 0..MaxVec }

StrapiEmbedding(d, t, c, e, ct, fn) ==
    [documentId |-> d, title |-> t, content |-> c, embeddingId |-> e,
     collectionType |-> ct, fieldName |-> fn]

StrapiRows(d) ==
    { StrapiEmbedding(d, p[1], p[2], p[3], "standalone", "content") :
        p \in MirrorPayloads }

MirrorStores ==
    UNION { { m \in [D -> UNION {StrapiRows(d) : d \in D}] :
                \A d \in D : m[d].documentId = d } : D \in SUBSET DocIds }

\* strapi.documents(uid).findMany: the entries, in documentId order
RECURSIVE FindManyFrom(_, _)
FindManyFrom(m, k) ==
    IF k > Len(DocOrder) THEN <<>>
    ELSE IF DocOrder[k] \in DOMAIN m
         THEN <<m[DocOrder[k]]>> \o FindManyFrom(m, k + 1)
         ELSE FindManyFrom(m, k + 1)

FindMany(m) == FindManyFrom(m, 1)

\* strapi.documents(uid).create with data.documentId = row.documentId.
\* An entry is identified by its documentId: after a create under a
\* documentId that already has an entry, a lookup by that documentId
\* returns the entry just created.
MirrorCreate(m, row) ==
    [d \in DOMAIN m \cup {row.documentId} |->
        IF d = row.documentId THEN row ELSE m[d]]

\* strapi.documents(uid).update({documentId, data: {title, content, embeddingId}})
MirrorUpdate(m, d, t, c, e) ==
    IF d \in DOMAIN m
    THEN [m EXCEPT ![d].title = t, ![d].content = c, ![d].embeddingId = e]
    ELSE m

\* strapi.documents(uid).delete({documentId})
MirrorDelete(m, d) == [x \in DOMAIN m \ {d} |-> m[x]]

\* ------------------------------------------------- syncFromNeon: helpers

\* the lookup map neonBystrapiId: keys are the strapiIds present
NeonBystrapiIdKeys(neon) ==
    { neon[k].strapiId[1] : k \in {j \in 1..Len(neon) : neon[j].strapiId # None} }

\* the lookup map strapiByDocumentId (a later entry replaces an earlier one)
RECURSIVE StrapiByDocumentIdFrom(_, _, _)
StrapiByDocumentIdFrom(strapi, k, acc) ==
    IF k > Len(strapi) THEN acc
    ELSE StrapiByDocumentIdFrom(strapi, k + 1,
            [d \in DOMAIN acc \cup {strapi[k].documentId} |->
                IF d = strapi[k].documentId THEN strapi[k] ELSE acc[d]])

StrapiByDocumentId(strapi) == StrapiByDocumentIdFrom(strapi, 1, <<>>)

EmptyResult(dryRun) ==
    [success |-> FALSE, dryRun |-> dryRun, neonCount |-> 0, strapiCount |-> 0,
     actions |-> [created |-> 0, updated |-> 0, orphansRemoved |-> 0],
     details |-> [created |-> <<>>, updated |-> <<>>, orphansRemoved |-> <<>>],
     errors |-> <<>>]

\* An entry of result.errors: which message, and the documentId or the
\* vector row id that the message names
Err(kind, id, neonId) == [kind |-> kind, id |-> id, neonId |-> neonId]

\* Variant of PushError: the message is not recorded
PushError_Dropped(r, e) == r

PushError(r, e) == [r EXCEPT !.errors = Append(@, e)]

CountCreated(r, d) ==
    [r EXCEPT !.actions.created = @ + 1, !.details.created = Append(@, d)]

CountUpdated(r, d) ==
    [r EXCEPT !.actions.updated = @ + 1, !.details.updated = Append(@, d)]

\* Variant of CountOrphan: the removal is counted but not listed
CountOrphan_NoDetail(r, d) == [r EXCEPT !.actions.orphansRemoved = @ + 1]

CountOrphan(r, d) ==
    [r EXCEPT !.actions.orphansRemoved = @ + 1,
              !.details.orphansRemoved = Append(@, d)]

\* Variant of Finished: success is set without looking at errors
Finished_AlwaysSuccess(r) == [r EXCEPT !.success = TRUE]

\* result.success = result.errors.length === 0; return result
Finished(r) == [r EXCEPT !.success = (Len(r.errors) = 0)]

\* Variant of Applies: the dryRun option is not consulted
Applies_Always(opts) == TRUE

\* if (!dryRun): the classified action is applied to the mirror store
Applies(opts) == ~opts.dryRun

\* Variant of AfterWrite: a failed write leaves the loop and the call returns
AfterWrite_Escapes(p, ok) == IF ok THEN p ELSE "done"

\* Where the call stands after a write: each write has its own try/catch
\* inside the loop body, so the loop goes on whatever the outcome
AfterWrite(p, ok) == p

\* Variant of HasNeonRecord: only the first vector row is looked at
HasNeonRecord_FirstRowOnly(neon, d) == Len(neon) > 0 /\ neon[1].strapiId = Some(d)

\* neonBystrapiId.has(documentId)
HasNeonRecord(neon, d) == d \in NeonBystrapiIdKeys(neon)

\* Variant of NeedsUpdate: only the content is compared
NeedsUpdate_ContentOnly(existingStrapi, neon) ==
    existingStrapi.content # neon.content

\* contentChanged || titleChanged || embeddingIdMissing
NeedsUpdate(existingStrapi, neon) ==
    \/ existingStrapi.content # neon.content
    \/ existingStrapi.title # neon.title
    \/ existingStrapi.embeddingId = None

\* No chunkContent call has been made
ChunkerIdle ==
    /\ content = <<>>
    /\ chunkSize = 4000
    /\ chunkOverlap = 200
    /\ rawChunks = <<>>
    /\ chunksWithOverlap = <<>>
    /\ chunks = <<>>
    /\ cpc = "idle"
    /\ frames = <<>>

\* No createChunkedEmbedding call has been made
GroupIdle ==
    /\ gpc = "idle"
    /\ ck = 1
    /\ parentDocumentId = None
    /\ createdChunks = <<>>
    /\ entity = None
    /\ log = <<>>
    /\ rawContent = <<>>
    /\ preprocess = TRUE

\* No call of the embeddings service other than createChunkedEmbedding has
\* been made
ServiceIdle ==
    /\ spc = "idle"
    /\ call = None
    /\ related = <<>>
    /\ sk = 1
    /\ slog = <<>>
    /\ calls = 0
    /\ updaters = <<>>

\* No pluginManager.createEmbedding call is followed attempt by attempt
RetryIdle ==
    /\ rpc = "idle"
    /\ attempt = 1
    /\ docData = None
    /\ rlog = <<>>

\* The MCP controller is handling no request: before the first one the
\* reply fields are unset; available is whether plugin.createMcpServer is
\* there
NoRequest(available) ==
    [at |-> "idle", available |-> available, header |-> None, session |-> None,
     created |-> FALSE, status |-> 0, transportError |-> FALSE, before |-> {}]

\* No MCP session and no MCP request
McpIdle ==
    /\ sessions = <<>>
    /\ mcp = NoRequest(TRUE)

Init ==
    /\ ChunkerIdle
    /\ GroupIdle
    /\ ServiceIdle
    /\ RetryIdle
    /\ McpIdle
    /\ initialized \in BOOLEAN
    /\ vec \in VecStores
    /\ mirror \in MirrorStores
    /\ pc = "idle"
    /\ options = [removeOrphans |-> FALSE, dryRun |-> FALSE]
    /\ neonEmbeddings = <<>>
    /\ strapiEmbeddings = <<>>
    /\ i = 1
    /\ result = EmptyResult(FALSE)
    /\ writes = <<>>
    /\ runs = 0
    /\ prevRun = None
    /\ status = None
    /\ entry = [vec |-> vec, mirror |-> mirror]


\* -------------------------------------------------- syncFromNeon: steps

\* What a completed call leaves behind for the next one to be compared with
RunSummary ==
    [options |-> options,
     storeFailure |-> \/ \E k \in 1..Len(writes) : ~writes[k].ok
                      \/ \E k \in 1..Len(result.errors) :
                            result.errors[k].kind = "syncFailed"]

\* Call entry: defaults, the empty result, the isInitialized check
SyncEnter(removeOrphans, dryRun) ==
    /\ runs' = runs + 1
    /\ options' = [removeOrphans |-> removeOrphans, dryRun |-> dryRun]
    /\ writes' = <<>>
    /\ i' = 1
    /\ neonEmbeddings' = <<>>
    /\ strapiEmbeddings' = <<>>
    /\ status' = None
    /\ entry' = [vec |-> vec, mirror |-> mirror]
    /\ IF ~initialized
       THEN /\ result' = PushError(EmptyResult(dryRun), Err("notInitialized", "", 0))
            /\ pc' = "done"
       ELSE /\ result' = EmptyResult(dryRun)
            /\ pc' = "loadNeon"
    /\ UNCHANGED <<chunkerVars, groupVars, serviceVars, retryVars, mcpVars>>
    /\ UNCHANGED <<initialized, vec, mirror>>

\* A first call of syncFromNeon
SyncStart(removeOrphans, dryRun) ==
    /\ pc = "idle"
    /\ prevRun' = None
    /\ SyncEnter(removeOrphans, dryRun)

\* A further call, made right after the previous one returned
SyncAgain(removeOrphans, dryRun) ==
    /\ pc = "done"
    /\ runs < MaxRuns
    /\ prevRun' = Some(RunSummary)
    /\ SyncEnter(removeOrphans, dryRun)

\* Step 1: await pluginManager.getAllNeonEmbeddings(); it may throw
SyncLoadNeon ==
    /\ pc = "loadNeon"
    /\ \E ok \in BOOLEAN :
        IF ok
        THEN /\ neonEmbeddings' = vec
             /\ result' = [result EXCEPT !.neonCount = Len(vec)]
             /\ pc' = "loadStrapi"
        ELSE /\ result' = PushError(result, Err("syncFailed", "", 0))
             /\ pc' = "done"
             /\ UNCHANGED neonEmbeddings
    /\ UNCHANGED <<chunkerVars, groupVars, serviceVars, retryVars, mcpVars>>
    /\ UNCHANGED <<initialized, vec, mirror, options, strapiEmbeddings, i,
                   writes, runs, prevRun, status, entry>>

\* Step 2: await strapi.documents(uid).findMany(); it may throw
SyncLoadStrapi ==
    /\ pc = "loadStrapi"
    /\ \E ok \in BOOLEAN :
        IF ok
        THEN /\ strapiEmbeddings' = FindMany(mirror)
             /\ result' = [result EXCEPT !.strapiCount = Len(FindMany(mirror))]
             /\ pc' = "step3"
             /\ i' = 1
        ELSE /\ result' = PushError(result, Err("syncFailed", "", 0))
             /\ pc' = "done"
             /\ UNCHANGED <<strapiEmbeddings, i>>
    /\ UNCHANGED <<chunkerVars, groupVars, serviceVars, retryVars, mcpVars>>
    /\ UNCHANGED <<initialized, vec, mirror, options, neonEmbeddings,
                   writes, runs, prevRun, status, entry>>

AtNeon == pc = "step3" /\ i <= Len(neonEmbeddings)

\* Step 3, a row without strapiId: push an error and continue
SyncSkipNoStrapiId ==
    /\ AtNeon
    /\ neonEmbeddings[i].strapiId = None
    /\ result' = PushError(result, Err("noStrapiId", "", neonEmbeddings[i].id))
    /\ i' = i + 1
    /\ UNCHANGED <<chunkerVars, groupVars, serviceVars, retryVars, mcpVars>>
    /\ UNCHANGED <<initialized, vec, mirror, pc, options, neonEmbeddings,
                   strapiEmbeddings, writes, runs, prevRun, status, entry>>

\* Step 3, no entry in the snapshot: create one
SyncCreate ==
    /\ AtNeon
    /\ neonEmbeddings[i].strapiId # None
    /\ LET neon == neonEmbeddings[i]
           d == neon.strapiId[1]
           row == StrapiEmbedding(d, neon.title, neon.content, Some(neon.id),
                                  neon.collectionType, neon.fieldName)
       IN /\ d \notin DOMAIN StrapiByDocumentId(strapiEmbeddings)
          /\ IF ~Applies(options)
             THEN /\ result' = CountCreated(result, d)
                  /\ UNCHANGED <<mirror, writes, pc>>
             ELSE \E ok \in BOOLEAN :
                    /\ pc' = AfterWrite(pc, ok)
                    /\ writes' = Append(writes, [op |-> "create", documentId |-> d, neonId |-> neon.id, ok |-> ok])
                    /\ IF ok
                       THEN /\ mirror' = MirrorCreate(mirror, row)
                            /\ result' = CountCreated(result, d)
                       ELSE /\ result' = PushError(result, Err("createFailed", d, neon.id))
                            /\ UNCHANGED mirror
    /\ i' = i + 1
    /\ UNCHANGED <<chunkerVars, groupVars, serviceVars, retryVars, mcpVars>>
    /\ UNCHANGED <<initialized, vec, options, neonEmbeddings,
                   strapiEmbeddings, runs, prevRun, status, entry>>

\* Variant of SyncUpdate: the difference is settled the other way round, the
\* vector row is overwritten from the entry
SyncUpdate_MirrorWins ==
    /\ AtNeon
    /\ neonEmbeddings[i].strapiId # None
    /\ LET neon == neonEmbeddings[i]
           d == neon.strapiId[1]
           byId == StrapiByDocumentId(strapiEmbeddings)
       IN /\ d \in DOMAIN byId
          /\ NeedsUpdate(byId[d], neon)
          /\ IF ~Applies(options)
             THEN /\ result' = CountUpdated(result, d)
                  /\ UNCHANGED <<vec, writes, pc>>
             ELSE \E ok \in BOOLEAN :
                    /\ pc' = AfterWrite(pc, ok)
                    /\ writes' = Append(writes, [op |-> "update", documentId |-> d, neonId |-> neon.id, ok |-> ok])
                    /\ IF ok
                       THEN /\ vec' = [vec EXCEPT ![i].title = byId[d].title,
                                                  ![i].content = byId[d].content]
                            /\ result' = CountUpdated(result, d)
                       ELSE /\ result' = PushError(result, Err("updateFailed", d, neon.id))
                            /\ UNCHANGED vec
    /\ i' = i + 1
    /\ UNCHANGED <<chunkerVars, groupVars, serviceVars, retryVars, mcpVars>>
    /\ UNCHANGED <<initialized, mirror, options, neonEmbeddings,
                   strapiEmbeddings, runs, prevRun, status, entry>>

\* Step 3, the snapshot entry differs: update it
SyncUpdate ==
    /\ AtNeon
    /\ neonEmbeddings[i].strapiId # None
    /\ LET neon == neonEmbeddings[i]
           d == neon.strapiId[1]
           byId == StrapiByDocumentId(strapiEmbeddings)
       IN /\ d \in DOMAIN byId
          /\ NeedsUpdate(byId[d], neon)
          /\ IF ~Applies(options)
             THEN /\ result' = CountUpdated(result, d)
                  /\ UNCHANGED <<mirror, writes, pc>>
             ELSE \E ok \in BOOLEAN :
                    /\ pc' = AfterWrite(pc, ok)
                    /\ writes' = Append(writes, [op |-> "update", documentId |-> d, neonId |-> neon.id, ok |-> ok])
                    /\ IF ok
                       THEN /\ mirror' = MirrorUpdate(mirror, d, neon.title,
                                                      neon.content, Some(neon.id))
                            /\ result' = CountUpdated(result, d)
                       ELSE /\ result' = PushError(result, Err("updateFailed", d, neon.id))
                            /\ UNCHANGED mirror
    /\ i' = i + 1
    /\ UNCHANGED <<chunkerVars, groupVars, serviceVars, retryVars, mcpVars>>
    /\ UNCHANGED <<initialized, vec, options, neonEmbeddings,
                   strapiEmbeddings, runs, prevRun, status, entry>>

\* Step 3, the snapshot entry matches: nothing to do
SyncKeep ==
    /\ AtNeon
    /\ neonEmbeddings[i].strapiId # None
    /\ LET neon == neonEmbeddings[i]
           d == neon.strapiId[1]
           byId == StrapiByDocumentId(strapiEmbeddings)
       IN /\ d \in DOMAIN byId
          /\ ~NeedsUpdate(byId[d], neon)
    /\ i' = i + 1
    /\ UNCHANGED <<chunkerVars, groupVars, serviceVars, retryVars, mcpVars>>
    /\ UNCHANGED <<initialized, vec, mirror, pc, options, neonEmbeddings,
                   strapiEmbeddings, result, writes, runs, prevRun, status, entry>>

\* End of step 3: on to step 4 if removeOrphans, else set success and return
SyncStep3Done ==
    /\ pc = "step3"
    /\ i > Len(neonEmbeddings)
    /\ IF options.removeOrphans
       THEN /\ pc' = "step4"
            /\ i' = 1
            /\ UNCHANGED result
       ELSE /\ pc' = "done"
            /\ result' = Finished(result)
            /\ UNCHANGED i
    /\ UNCHANGED <<chunkerVars, groupVars, serviceVars, retryVars, mcpVars>>
    /\ UNCHANGED <<initialized, vec, mirror, options, neonEmbeddings,
                   strapiEmbeddings, writes, runs, prevRun, status, entry>>

\* Variant of AtStrapi: orphans are removed while step 3 is still running
AtStrapi_DuringStep3 == pc \in {"step3", "step4"} /\ i <= Len(strapiEmbeddings)

\* for (const strapiEmbed of strapiEmbeddings), reached after step 3
AtStrapi == pc = "step4" /\ i <= Len(strapiEmbeddings)

\* Step 4, an entry with no vector row: delete it
SyncRemoveOrphan ==
    /\ AtStrapi
    /\ LET d == strapiEmbeddings[i].documentId
       IN /\ ~HasNeonRecord(neonEmbeddings, d)
          /\ IF ~Applies(options)
             THEN /\ result' = CountOrphan(result, d)
                  /\ UNCHANGED <<mirror, writes, pc>>
             ELSE \E ok \in BOOLEAN :
                    /\ pc' = AfterWrite(pc, ok)
                    /\ writes' = Append(writes, [op |-> "delete", documentId |-> d, neonId |-> 0, ok |-> ok])
                    /\ IF ok
                       THEN /\ mirror' = MirrorDelete(mirror, d)
                            /\ result' = CountOrphan(result, d)
                       ELSE /\ result' = PushError(result, Err("orphanFailed", d, 0))
                            /\ UNCHANGED mirror
    /\ i' = i + 1
    /\ UNCHANGED <<chunkerVars, groupVars, serviceVars, retryVars, mcpVars>>
    /\ UNCHANGED <<initialized, vec, options, neonEmbeddings,
                   strapiEmbeddings, runs, prevRun, status, entry>>

\* Step 4, an entry that has a vector row: keep it
SyncKeepEntry ==
    /\ AtStrapi
    /\ HasNeonRecord(neonEmbeddings, strapiEmbeddings[i].documentId)
    /\ i' = i + 1
    /\ UNCHANGED <<chunkerVars, groupVars, serviceVars, retryVars, mcpVars>>
    /\ UNCHANGED <<initialized, vec, mirror, pc, options, neonEmbeddings,
                   strapiEmbeddings, result, writes, runs, prevRun, status, entry>>

\* End of step 4: set success and return
SyncStep4Done ==
    /\ pc = "step4"
    /\ i > Len(strapiEmbeddings)
    /\ pc' = "done"
    /\ result' = Finished(result)
    /\ UNCHANGED <<chunkerVars, groupVars, serviceVars, retryVars, mcpVars>>
    /\ UNCHANGED <<initialized, vec, mirror, options, neonEmbeddings,
                   strapiEmbeddings, i, writes, runs, prevRun, status, entry>>

syncFromNeon ==
    \/ \E removeOrphans \in BOOLEAN, dryRun \in BOOLEAN : SyncStart(removeOrphans, dryRun)
    \/ SyncLoadNeon
    \/ SyncLoadStrapi
    \/ SyncSkipNoStrapiId
    \/ SyncCreate
    \/ SyncUpdate
    \/ SyncKeep
    \/ SyncStep3Done
    \/ SyncRemoveOrphan
    \/ SyncKeepEntry
    \/ SyncStep4Done

\* ------------------------------------------------------- getSyncStatus

RECURSIVE CountMissingInStrapi(_, _, _)
CountMissingInStrapi(neon, byId, k) ==
    IF k > Len(neon) THEN 0
    ELSE (IF neon[k].strapiId # None /\ neon[k].strapiId[1] \notin DOMAIN byId
          THEN 1 ELSE 0) + CountMissingInStrapi(neon, byId, k + 1)

\* Variant of CountContentDifferences: a differing title counts as well
RECURSIVE CountContentDifferences_OrTitle(_, _, _)
CountContentDifferences_OrTitle(neon, byId, k) ==
    IF k > Len(neon) THEN 0
    ELSE (IF /\ neon[k].strapiId # None
             /\ neon[k].strapiId[1] \in DOMAIN byId
             /\ \/ byId[neon[k].strapiId[1]].content # neon[k].content
                \/ byId[neon[k].strapiId[1]].title # neon[k].title
          THEN 1 ELSE 0) + CountContentDifferences_OrTitle(neon, byId, k + 1)

RECURSIVE CountContentDifferences(_, _, _)
CountContentDifferences(neon, byId, k) ==
    IF k > Len(neon) THEN 0
    ELSE (IF /\ neon[k].strapiId # None
             /\ neon[k].strapiId[1] \in DOMAIN byId
             /\ byId[neon[k].strapiId[1]].content # neon[k].content
          THEN 1 ELSE 0) + CountContentDifferences(neon, byId, k + 1)

RECURSIVE CountMissingInNeon(_, _, _)
CountMissingInNeon(strapi, neon, k) ==
    IF k > Len(strapi) THEN 0
    ELSE (IF ~HasNeonRecord(neon, strapi[k].documentId) THEN 1 ELSE 0)
         + CountMissingInNeon(strapi, neon, k + 1)

SyncStatus(neon, strapi) ==
    LET byId == StrapiByDocumentId(strapi)
        missingInStrapi == CountMissingInStrapi(neon, byId, 1)
        contentDifferences == CountContentDifferences(neon, byId, 1)
        missingInNeon == CountMissingInNeon(strapi, neon, 1)
    IN [neonCount |-> Len(neon), strapiCount |-> Len(strapi),
        inSync |-> missingInStrapi = 0 /\ missingInNeon = 0 /\ contentDifferences = 0,
        missingInStrapi |-> missingInStrapi,
        missingInNeon |-> missingInNeon,
        contentDifferences |-> contentDifferences]

\* The whole call: it reads both stores and returns, or throws when the
\* plugin manager is not initialized or a read fails
StatusCall ==
    /\ status = None
    /\ \E ok \in BOOLEAN :
        status' = IF initialized /\ ok
                  THEN Some([threw |-> FALSE, value |-> SyncStatus(vec, FindMany(mirror))])
                  ELSE Some([threw |-> TRUE, value |-> SyncStatus(<<>>, <<>>)])
    /\ entry' = [vec |-> vec, mirror |-> mirror]
    /\ UNCHANGED <<chunkerVars, groupVars, serviceVars, retryVars, mcpVars>>
    /\ UNCHANGED <<initialized, vec, mirror, pc, options, neonEmbeddings,
                   strapiEmbeddings, i, result, writes, runs, prevRun>>

\* getSyncStatus called while no syncFromNeon has been called
getSyncStatus == pc = "idle" /\ StatusCall

\* getSyncStatus called right after syncFromNeon returned
getSyncStatusAfter == pc = "done" /\ StatusCall

\* One call of either operation, from any contents of the two stores
Next == syncFromNeon \/ getSyncStatus

Spec == Init /\ [][Next]_vars

\* The same, with syncFromNeon called again after it returned
NextRerun ==
    \/ Next
    \/ getSyncStatusAfter
    \/ \E removeOrphans \in BOOLEAN, dryRun \in BOOLEAN : SyncAgain(removeOrphans, dryRun)

SpecRerun == Init /\ [][NextRerun]_vars

\* ------------------------------------- syncFromNeon: an interrupted call

\* The caller gives up on a running call that applies its writes: no later
\* step of the call is taken
SyncAbort ==
    /\ pc \in {"loadNeon", "loadStrapi", "step3", "step4"}
    /\ runs = 1
    /\ Applies(options)
    /\ pc' = "aborted"
    /\ UNCHANGED <<chunkerVars, groupVars, serviceVars, retryVars, mcpVars>>
    /\ UNCHANGED <<initialized, vec, mirror, options, neonEmbeddings, strapiEmbeddings,
                   i, result, writes, runs, prevRun, status, entry>>

\* What an abandoned call leaves behind for the next one to be compared
\* with: its options, the stores it started from and its writes
Abandoned ==
    [options |-> options, storeFailure |-> RunSummary.storeFailure,
     entry |-> entry, writes |-> writes]

\* syncFromNeon is called again with the options of the abandoned call
SyncResume ==
    /\ pc = "aborted"
    /\ prevRun' = Some(Abandoned)
    /\ SyncEnter(options.removeOrphans, options.dryRun)

\* The mirror store after the loop of step 3 from row k on, every write
\* succeeding; byId is the snapshot of step 2
RECURSIVE AfterStep3(_, _, _, _)
AfterStep3(neon, byId, m, k) ==
    IF k > Len(neon) THEN m
    ELSE IF neon[k].strapiId = None THEN AfterStep3(neon, byId, m, k + 1)
    ELSE LET d == neon[k].strapiId[1]
         IN IF d \notin DOMAIN byId
            THEN AfterStep3(neon, byId,
                            MirrorCreate(m, StrapiEmbedding(d, neon[k].title, neon[k].content,
                                                            Some(neon[k].id),
                                                            neon[k].collectionType,
                                                            neon[k].fieldName)),
                            k + 1)
            ELSE IF NeedsUpdate(byId[d], neon[k])
            THEN AfterStep3(neon, byId,
                            MirrorUpdate(m, d, neon[k].title, neon[k].content,
                                         Some(neon[k].id)),
                            k + 1)
            ELSE AfterStep3(neon, byId, m, k + 1)

\* The mirror store after step 4, every delete succeeding: the entries of
\* the snapshot that have no row are gone
AfterStep4(neon, byId, m) ==
    [d \in { x \in DOMAIN m : x \in DOMAIN byId => HasNeonRecord(neon, x) } |-> m[d]]

\* The mirror store one call of syncFromNeon that is not a dry run leaves
\* when it runs to its end and none of its store calls fails
Synced(neon, m, removeOrphans) ==
    LET byId == StrapiByDocumentId(FindMany(m))
        after3 == AfterStep3(neon, byId, m, 1)
    IN IF removeOrphans THEN AfterStep4(neon, byId, after3) ELSE after3

\* One call that applies its writes, abandoned at any point or not, and
\* after an abandoned call one more call with the same options
NextInterrupted ==
    \/ \E removeOrphans \in BOOLEAN : SyncStart(removeOrphans, FALSE)
    \/ SyncLoadNeon
    \/ SyncLoadStrapi
    \/ SyncSkipNoStrapiId
    \/ SyncCreate
    \/ SyncUpdate
    \/ SyncKeep
    \/ SyncStep3Done
    \/ SyncRemoveOrphan
    \/ SyncKeepEntry
    \/ SyncStep4Done
    \/ SyncAbort
    \/ SyncResume

SpecInterrupted == Init /\ [][NextInterrupted]_vars

TypeOK ==
    /\ initialized \in BOOLEAN
    /\ pc \in {"idle", "loadNeon", "loadStrapi", "step3", "step4", "done"}
    /\ runs \in 0..MaxRuns
    /\ \A d \in DOMAIN mirror : mirror[d].documentId = d


\* ===================================================================
\* The text chunker
\* ===================================================================

\* The characters a text is made of: a letter, a blank, a full stop, a
\* line feed
Chars == {"a", " ", ".", "\n"}

RECURSIVE TextsOfLen(_)
TextsOfLen(n) ==
    IF n = 0 THEN {<<>>}
    ELSE { Append(t, c) : t \in TextsOfLen(n - 1), c \in Chars }

Texts == UNION { TextsOfLen(n) : n \in 0..MaxLen }

DEFAULT_SEPARATORS ==
    << <<"\n", "\n">>, <<"\n">>, <<".", " ">>, <<"!", " ">>, <<"?", " ">>,
       <<";", " ">>, <<",", " ">>, <<" ">>, <<>> >>

\* String.prototype.trim
IsWhiteSpace(c) == c \in {" ", "\n"}

RECURSIVE TrimStart(_)
TrimStart(text) ==
    IF Len(text) > 0 /\ IsWhiteSpace(Head(text)) THEN TrimStart(Tail(text)) ELSE text

RECURSIVE TrimEnd(_)
TrimEnd(text) ==
    IF Len(text) > 0 /\ IsWhiteSpace(text[Len(text)])
    THEN TrimEnd(SubSeq(text, 1, Len(text) - 1))
    ELSE text

\* Variant of Trim: only leading white space is removed
Trim_StartOnly(text) == TrimStart(text)

Trim(text) == TrimEnd(TrimStart(text))

\* text.slice(from) and text.slice(from, to), 0-based, to exclusive
Slice(text, from, to) ==
    SubSeq(text, from + 1, IF to > Len(text) THEN Len(text) ELSE to)

\* The separator occurs in text at 1-based position k
OccursAt(text, separator, k) ==
    /\ k + Len(separator) - 1 <= Len(text)
    /\ SubSeq(text, k, k + Len(separator) - 1) = separator

\* text.includes(separator)
Includes(text, separator) ==
    \E k \in 1..(Len(text) + 1) : OccursAt(text, separator, k)

\* text.split(separator) for a separator that is not empty
RECURSIVE Split(_, _)
Split(text, separator) ==
    IF ~Includes(text, separator) THEN <<text>>
    ELSE LET k == CHOOSE j \in 1..Len(text) :
                    /\ OccursAt(text, separator, j)
                    /\ \A h \in 1..(j - 1) : ~OccursAt(text, separator, h)
         IN <<SubSeq(text, 1, k - 1)>>
            \o Split(SubSeq(text, k + Len(separator), Len(text)), separator)

splitWithSeparator(text, separator) ==
    IF separator = <<>>
    THEN [k \in 1..Len(text) |-> <<text[k]>>]
    ELSE LET parts == Split(text, separator)
             n == Len(parts)
             kept == [k \in 1..(n - 1) |-> parts[k] \o separator]
         IN IF parts[n] # <<>> THEN Append(kept, parts[n]) ELSE kept

\* The first separator of the list that the text includes, the last one
\* of the list when it includes none
RECURSIVE BestSeparatorFrom(_, _, _)
BestSeparatorFrom(text, separators, k) ==
    IF k > Len(separators) THEN separators[Len(separators)]
    ELSE IF Includes(text, separators[k]) THEN separators[k]
    ELSE BestSeparatorFrom(text, separators, k + 1)

BestSeparator(text, separators) == BestSeparatorFrom(text, separators, 1)

\* separators.slice(separators.indexOf(bestSeparator) + 1)
RemainingSeparators(separators, bestSeparator) ==
    LET idx == CHOOSE k \in 1..Len(separators) :
                  /\ separators[k] = bestSeparator
                  /\ \A h \in 1..(k - 1) : separators[h] # bestSeparator
    IN SubSeq(separators, idx + 1, Len(separators))

\* for (let i = 0; i < split.length; i += chunkSize) split.slice(i, i + chunkSize)
RECURSIVE ForceSplit(_, _, _)
ForceSplit(split, size, from) ==
    IF from >= Len(split) THEN <<>>
    ELSE <<Slice(split, from, from + size)>> \o ForceSplit(split, size, from + size)

RECURSIVE splitText(_, _, _)
RECURSIVE Pack(_, _, _, _, _, _)

\* The packing loop of splitText from its k-th split on, with the chunks
\* pushed so far and the current chunk
Pack(splits, k, size, remainingSeparators, acc, currentChunk) ==
    IF k > Len(splits)
    THEN IF currentChunk # <<>> THEN Append(acc, currentChunk) ELSE acc
    ELSE LET split == splits[k]
             pushed == IF currentChunk # <<>> THEN Append(acc, currentChunk) ELSE acc
         IN IF Len(currentChunk) + Len(split) <= size
            THEN Pack(splits, k + 1, size, remainingSeparators, acc, currentChunk \o split)
            ELSE IF Len(split) > size
            THEN Pack(splits, k + 1, size, remainingSeparators,
                      pushed \o (IF Len(remainingSeparators) > 0
                                 THEN splitText(split, size, remainingSeparators)
                                 ELSE ForceSplit(split, size, 0)),
                      <<>>)
            ELSE Pack(splits, k + 1, size, remainingSeparators, pushed, split)

splitText(text, size, separators) ==
    IF Len(text) <= size THEN <<text>>
    ELSE LET bestSeparator == BestSeparator(text, separators)
             splits == splitWithSeparator(text, bestSeparator)
             remainingSeparators == RemainingSeparators(separators, bestSeparator)
         IN Pack(splits, 1, size, remainingSeparators, <<>>, <<>>)

\* Variant of LastChars: the whole previous chunk is taken
LastChars_Whole(prevChunk, overlap) == prevChunk

\* prevChunk.slice(-overlap), for overlap > 0
LastChars(prevChunk, overlap) ==
    SubSeq(prevChunk,
           (IF overlap >= Len(prevChunk) THEN 0 ELSE Len(prevChunk) - overlap) + 1,
           Len(prevChunk))

\* Variant of addOverlap: the overlap is taken from the previous chunk
\* after that chunk got its own overlap
RECURSIVE addOverlap_Cumulative(_, _)
addOverlap_Cumulative(pieces, overlap) ==
    IF overlap <= 0 \/ Len(pieces) <= 1 THEN pieces
    ELSE LET n == Len(pieces)
             before == addOverlap_Cumulative(SubSeq(pieces, 1, n - 1), overlap)
             prev == IF n = 2 THEN pieces[1] ELSE before[n - 1]
         IN Append(before, LastChars(prev, overlap) \o pieces[n])

addOverlap(pieces, overlap) ==
    IF overlap <= 0 \/ Len(pieces) <= 1 THEN pieces
    ELSE [k \in 1..Len(pieces) |->
            IF k > 1 THEN LastChars(pieces[k - 1], overlap) \o pieces[k]
            ELSE pieces[k]]

TextChunk(text, chunkIndex, totalChunks, startOffset, endOffset) ==
    [text |-> text, chunkIndex |-> chunkIndex, totalChunks |-> totalChunks,
     startOffset |-> startOffset, endOffset |-> endOffset]

\* The loop that trims each chunk, drops the empty ones and sets the
\* offsets, from the k-th chunk on
RECURSIVE BuildResult(_, _, _, _)
BuildResult(raw, overlapped, k, currentOffset) ==
    IF k > Len(overlapped) THEN <<>>
    ELSE LET text == Trim(overlapped[k])
             rest == BuildResult(raw, overlapped, k + 1, currentOffset + Len(raw[k]))
         IN IF text # <<>>
            THEN <<TextChunk(text, k - 1, Len(overlapped), currentOffset,
                             currentOffset + Len(raw[k]))>> \o rest
            ELSE rest

\* Variant of Renumber: the indices set in the loop are kept
Renumber_Skipped(res) == res

\* result.forEach((chunk, idx) => ...): chunkIndex and totalChunks over the
\* chunks that were kept
Renumber(res) ==
    [k \in 1..Len(res) |->
        [res[k] EXCEPT !.chunkIndex = k - 1, !.totalChunks = Len(res)]]

\* Variant of ChunkContentSteps: splitText is given the whole chunkSize
ChunkContentSteps_FullBudget(text, size, overlap) ==
    LET cleanContent == Trim(text)
    IN IF cleanContent = <<>>
       THEN [rawChunks |-> <<>>, chunksWithOverlap |-> <<>>, result |-> <<>>]
       ELSE IF Len(cleanContent) <= size
       THEN [rawChunks |-> <<>>, chunksWithOverlap |-> <<>>,
             result |-> <<TextChunk(cleanContent, 0, 1, 0, Len(cleanContent))>>]
       ELSE LET raw == splitText(cleanContent, size, DEFAULT_SEPARATORS)
                overlapped == addOverlap(raw, overlap)
            IN [rawChunks |-> raw, chunksWithOverlap |-> overlapped,
                result |-> Renumber(BuildResult(raw, overlapped, 1, 0))]

\* The raw chunks, the chunks with overlap and the result of
\* chunkContent(text, {chunkSize: size, chunkOverlap: overlap})
ChunkContentSteps(text, size, overlap) ==
    LET cleanContent == Trim(text)
    IN IF cleanContent = <<>>
       THEN [rawChunks |-> <<>>, chunksWithOverlap |-> <<>>, result |-> <<>>]
       ELSE IF Len(cleanContent) <= size
       THEN [rawChunks |-> <<>>, chunksWithOverlap |-> <<>>,
             result |-> <<TextChunk(cleanContent, 0, 1, 0, Len(cleanContent))>>]
       ELSE LET raw == splitText(cleanContent, size - overlap, DEFAULT_SEPARATORS)
                overlapped == addOverlap(raw, overlap)
            IN [rawChunks |-> raw, chunksWithOverlap |-> overlapped,
                result |-> Renumber(BuildResult(raw, overlapped, 1, 0))]

chunkContent(text, size, overlap) == ChunkContentSteps(text, size, overlap).result

\* The options a caller passes: chunkSize > chunkOverlap >= 0
ChunkOptions ==
    { o \in [chunkSize : 1..MaxChunkSize, chunkOverlap : 0..(MaxChunkSize - 1)] :
        o.chunkSize > o.chunkOverlap }

ChunkerInit ==
    /\ GroupIdle
    /\ ServiceIdle
    /\ RetryIdle
    /\ McpIdle
    /\ initialized = TRUE
    /\ vec = <<>>
    /\ mirror = <<>>
    /\ pc = "idle"
    /\ options = [removeOrphans |-> FALSE, dryRun |-> FALSE]
    /\ neonEmbeddings = <<>>
    /\ strapiEmbeddings = <<>>
    /\ i = 1
    /\ result = EmptyResult(FALSE)
    /\ writes = <<>>
    /\ runs = 0
    /\ prevRun = None
    /\ status = None
    /\ entry = [vec |-> vec, mirror |-> mirror]
    /\ content \in Texts
    /\ \E o \in ChunkOptions : chunkSize = o.chunkSize /\ chunkOverlap = o.chunkOverlap
    /\ rawChunks = <<>>
    /\ chunksWithOverlap = <<>>
    /\ chunks = <<>>
    /\ cpc = "idle"
    /\ frames = <<>>

\* One call chunkContent(content, {chunkSize, chunkOverlap})
ChunkContentCall ==
    /\ cpc = "idle"
    /\ LET r == ChunkContentSteps(content, chunkSize, chunkOverlap)
       IN /\ rawChunks' = r.rawChunks
          /\ chunksWithOverlap' = r.chunksWithOverlap
          /\ chunks' = r.result
    /\ cpc' = "done"
    /\ UNCHANGED frames
    /\ UNCHANGED <<content, chunkSize, chunkOverlap>>
    /\ UNCHANGED <<syncVars, groupVars, serviceVars, retryVars, mcpVars>>

ChunkerNext == ChunkContentCall

SpecChunker == ChunkerInit /\ [][ChunkerNext]_vars


\* ===================================================================
\* The embeddings service: createChunkedEmbedding
\* ===================================================================

\* The characters of the contents handed to createChunkedEmbedding
GroupChars == {"a", " "}

GroupTexts == { t \in Texts : \A k \in 1..Len(t) : t[k] \in GroupChars }

\* config.chunkSize || 4000 and config.chunkOverlap || 200: a configured
\* overlap of 0 is replaced by the default
GroupOptions == { o \in ChunkOptions : o.chunkOverlap >= 1 }

\* entry.metadata; an entry written without metadata has none
MetadataOf(r) == IF "metadata" \in DOMAIN r THEN r.metadata ELSE None

\* metadata?.parentDocumentId
ParentOf(r) ==
    IF MetadataOf(r) = None THEN None ELSE MetadataOf(r)[1].parentDocumentId

\* The documentId of the entry strapi.documents(uid).create returns: one
\* the store never handed out; of those, a documentId that no entry and no
\* row refers to stands for all the others
NewDocumentId(m, v) ==
    LET used == DOMAIN m
                \cup { ParentOf(m[d])[1] : d \in { x \in DOMAIN m : ParentOf(m[x]) # None } }
                \cup { v[k].strapiId[1] : k \in { x \in 1..Len(v) : v[x].strapiId # None } }
        k == CHOOSE h \in 1..Len(DocumentIdPool) :
                /\ DocumentIdPool[h] \notin used
                /\ \A g \in 1..(h - 1) : DocumentIdPool[g] \in used
    IN DocumentIdPool[k]

\* formatChunkTitle: the base title, and the part i of N of its suffix
\* ' [Part i/N]' (0 of 0: no suffix)
formatChunkTitle(baseTitle, chunkIndex, totalChunks) ==
    IF totalChunks = 1
    THEN [base |-> baseTitle, part |-> 0, of |-> 0]
    ELSE [base |-> baseTitle, part |-> chunkIndex + 1, of |-> totalChunks]

\* estimateTokens: Math.ceil(text.length / 4)
estimateTokens(text) == (Len(text) + 3) \div 4

\* Variant of ChunkMetadata: the chunk index is counted from 1
ChunkMetadata_OneBased(chunk, title, parent) ==
    [isChunk |-> TRUE, chunkIndex |-> chunk.chunkIndex + 1,
     totalChunks |-> chunk.totalChunks, startOffset |-> chunk.startOffset,
     endOffset |-> chunk.endOffset, originalTitle |-> title,
     parentDocumentId |-> parent, estimatedTokens |-> estimateTokens(chunk.text)]

\* chunkMetadata; the caller's own metadata is left out
ChunkMetadata(chunk, title, parent) ==
    [isChunk |-> TRUE, chunkIndex |-> chunk.chunkIndex,
     totalChunks |-> chunk.totalChunks, startOffset |-> chunk.startOffset,
     endOffset |-> chunk.endOffset, originalTitle |-> title,
     parentDocumentId |-> parent, estimatedTokens |-> estimateTokens(chunk.text)]

\* An entry of the mirror store with its metadata (None: metadata null)
MirrorRecord(d, t, c, e, md) ==
    [documentId |-> d, title |-> t, content |-> c, embeddingId |-> e,
     collectionType |-> "standalone", fieldName |-> "content", metadata |-> md]

\* strapi.documents(uid).update({documentId, data: {metadata}})
MirrorUpdateMetadata(m, d, md) ==
    IF d \in DOMAIN m THEN [m EXCEPT ![d].metadata = md] ELSE m

\* strapi.documents(uid).update({documentId, data: {embeddingId, embedding}})
MirrorUpdateEmbeddingId(m, d, e) ==
    IF d \in DOMAIN m THEN [m EXCEPT ![d].embeddingId = e] ELSE m

\* The id the INSERT gives the new row: the serial column never repeats an
\* id, and an id larger than every id a row or an entry holds stands for it
NextVecId(v, m) ==
    LET held == {0} \cup { v[k].id : k \in 1..Len(v) }
                \cup { m[d].embeddingId[1] : d \in { x \in DOMAIN m : m[x].embeddingId # None } }
    IN 1 + (CHOOSE x \in held : \A y \in held : y <= x)

\* pluginManager.createEmbedding: the INSERT ... RETURNING id
VecInsert(v, m, sid, t, c) ==
    Append(v, NeonEmbedding(NextVecId(v, m), Some(sid), <<t, c, "standalone", "content">>))

\* Variant of VecDelete: no row is deleted
VecDelete_Nothing(v, sid) == v

\* pluginManager.deleteEmbedding: DELETE ... WHERE metadata->>'id' = $1
VecDelete(v, sid) == SelectSeq(v, LAMBDA row : row.strapiId # Some(sid))

\* Variant of AnchorOf: the first chunk's documentId is never captured
AnchorOf_Never(chunkIndex, parent, d) == parent

\* parentDocumentId after the entry of a chunk was created
AnchorOf(chunkIndex, parent, d) == IF chunkIndex = 0 THEN Some(d) ELSE parent

\* Variant of OnEmbedFailed: the exception leaves the loop
OnEmbedFailed_Abort(next) == "threw"

\* Where the loop goes after the catch of a failed embedding
OnEmbedFailed(next) == next

\* The title of every record the call writes
GroupTitle == "t"

\* text.replace(/c{most+1,}/g, c repeated most times): of every run of the
\* character c only the first most are kept (run: how many were just read)
RECURSIVE CollapseRuns(_, _, _, _)
CollapseRuns(text, c, most, run) ==
    IF text = <<>> THEN <<>>
    ELSE IF Head(text) = c
         THEN (IF run < most THEN <<c>> ELSE <<>>)
              \o CollapseRuns(Tail(text), c, most, run + 1)
         ELSE <<Head(text)>> \o CollapseRuns(Tail(text), c, most, 0)

\* Array.prototype.join
RECURSIVE Join(_, _)
Join(parts, separator) ==
    IF Len(parts) = 0 THEN <<>>
    ELSE IF Len(parts) = 1 THEN parts[1]
    ELSE parts[1] \o separator \o Join(Tail(parts), separator)

\* normalizeWhitespace: three or more line feeds become two, a run of
\* blanks becomes one blank, every line is trimmed, the whole is trimmed
normalizeWhitespace(text) ==
    LET paragraphs == CollapseRuns(text, "\n", 2, 0)
        spaced == CollapseRuns(paragraphs, " ", 1, 0)
        lines == Split(spaced, <<"\n">>)
    IN Trim(Join([k \in 1..Len(lines) |-> Trim(lines[k])], <<"\n">>))

\* preprocessContent of a text that holds neither HTML nor Markdown (none
\* of the patterns of containsHtml and containsMarkdown matches a text
\* over GroupChars): stripHtml and stripMarkdownSyntax return it as it is
preprocessContent(text) ==
    IF text = <<>> THEN <<>> ELSE normalizeWhitespace(text)

\* const content = config.preprocessContent ? preprocessContent(rawContent)
\*                                          : rawContent
Preprocessed(raw, enabled) == IF enabled THEN preprocessContent(raw) ELSE raw

LogEntry(op, chunkIndex, d, parent, ok) ==
    [op |-> op, chunkIndex |-> chunkIndex, documentId |-> d,
     parentDocumentId |-> parent, ok |-> ok]

\* The position after the iteration of the ck-th chunk
NextChunk == IF ck >= Len(chunks) THEN "done" ELSE "create"

GroupInit ==
    /\ ServiceIdle
    /\ RetryIdle
    /\ McpIdle
    /\ gpc = "idle"
    /\ ck = 1
    /\ parentDocumentId = None
    /\ createdChunks = <<>>
    /\ entity = None
    /\ log = <<>>
    /\ rawContent \in GroupTexts
    /\ preprocess \in BOOLEAN
    /\ initialized \in BOOLEAN
    /\ vec = <<>>
    /\ mirror = <<>>
    /\ pc = "idle"
    /\ options = [removeOrphans |-> FALSE, dryRun |-> FALSE]
    /\ neonEmbeddings = <<>>
    /\ strapiEmbeddings = <<>>
    /\ i = 1
    /\ result = EmptyResult(FALSE)
    /\ writes = <<>>
    /\ runs = 0
    /\ prevRun = None
    /\ status = None
    /\ entry = [vec |-> vec, mirror |-> mirror]
    /\ content = <<>>
    /\ \E o \in GroupOptions : chunkSize = o.chunkSize /\ chunkOverlap = o.chunkOverlap
    /\ rawChunks = <<>>
    /\ chunksWithOverlap = <<>>
    /\ chunks = <<>>
    /\ cpc = "idle"
    /\ frames = <<>>

\* What no step of createChunkedEmbedding changes
GroupFrame ==
    UNCHANGED <<initialized, pc, options, neonEmbeddings, strapiEmbeddings, i,
                result, writes, runs, prevRun, status, entry,
                chunkSize, chunkOverlap, rawContent, preprocess,
                serviceVars, retryVars, mcpVars>>

\* Variant of EntryPoint: a single chunk goes through the loop as well
EntryPoint_AlwaysLoop(n) == IF n = 0 THEN "threw" ELSE "create"

\* Where createChunkedEmbedding goes with n chunks: it throws for none,
\* calls createEmbedding for one, enters the loop for several
EntryPoint(n) ==
    IF n = 0 THEN "threw" ELSE IF n = 1 THEN "singleCreate" ELSE "create"

\* needsChunking
needsChunking(text, maxChars) == Len(text) > maxChars

\* What the entry of a creating call leaves alone
EnterFrame ==
    UNCHANGED <<initialized, pc, options, neonEmbeddings, strapiEmbeddings, i,
                result, writes, runs, prevRun, status, entry,
                chunkSize, chunkOverlap, preprocess, serviceVars, retryVars, mcpVars,
                parentDocumentId, createdChunks, entity, log, vec, mirror>>

\* createChunkedEmbedding({data: {content: raw}}): the content is
\* preprocessed when the configuration says so, then chunked; no chunk
\* throws, one chunk goes to createEmbedding, several chunks enter the loop
CreateChunkedEnter(raw) ==
    /\ rawContent' = raw
    /\ content' = Preprocessed(raw, preprocess)
    /\ LET r == ChunkContentSteps(content', chunkSize, chunkOverlap)
       IN /\ rawChunks' = r.rawChunks
          /\ chunksWithOverlap' = r.chunksWithOverlap
          /\ chunks' = r.result
          /\ gpc' = EntryPoint(Len(r.result))
    /\ cpc' = "done"
    /\ UNCHANGED frames
    /\ ck' = 1
    /\ EnterFrame

\* createEmbedding({data: {content: raw, autoChunk}}): a preprocessed
\* content longer than chunkSize is handed, as it was passed, to
\* createChunkedEmbedding when autoChunk is set; any other content is
\* stored as one entry
CreateEnter(raw, autoChunk) ==
    IF autoChunk /\ needsChunking(Preprocessed(raw, preprocess), chunkSize)
    THEN CreateChunkedEnter(raw)
    ELSE /\ rawContent' = raw
         /\ content' = Preprocessed(raw, preprocess)
         /\ gpc' = "singleCreate"
         /\ ck' = 1
         /\ UNCHANGED <<rawChunks, chunksWithOverlap, chunks, cpc, frames>>
         /\ EnterFrame

\* The call of createChunkedEmbedding with the content at hand
GroupStart ==
    /\ gpc = "idle"
    /\ CreateChunkedEnter(rawContent)

\* One chunk: createEmbedding creates the entry, without chunk metadata
SingleCreate ==
    /\ gpc = "singleCreate"
    /\ \E ok \in BOOLEAN :
        LET d == NewDocumentId(mirror, vec)
        IN IF ok
           THEN /\ mirror' = MirrorCreate(mirror,
                        MirrorRecord(d, formatChunkTitle(GroupTitle, 0, 1), content, None, None))
                /\ entity' = Some(d)
                /\ log' = Append(log, LogEntry("create", 0, d, None, TRUE))
                /\ IF initialized
                   THEN gpc' = "singleEmbed" /\ UNCHANGED createdChunks
                   ELSE gpc' = "done" /\ createdChunks' = <<mirror'[d]>>
           ELSE /\ log' = Append(log, LogEntry("create", 0, "", None, FALSE))
                /\ gpc' = "threw"
                /\ UNCHANGED <<mirror, entity, createdChunks>>
    /\ UNCHANGED <<vec, ck, parentDocumentId, rawChunks, chunksWithOverlap, chunks, cpc, frames>>
    /\ UNCHANGED content
    /\ GroupFrame

\* One chunk: pluginManager.createEmbedding
SingleEmbed ==
    /\ gpc = "singleEmbed"
    /\ \E ok \in BOOLEAN :
        IF ok
        THEN /\ vec' = VecInsert(vec, mirror, entity[1], formatChunkTitle(GroupTitle, 0, 1), content)
             /\ log' = Append(log, LogEntry("embed", 0, entity[1], None, TRUE))
             /\ gpc' = "singleSave"
             /\ UNCHANGED createdChunks
        ELSE /\ log' = Append(log, LogEntry("embed", 0, entity[1], None, FALSE))
             /\ createdChunks' = <<mirror[entity[1]]>>
             /\ gpc' = "done"
             /\ UNCHANGED vec
    /\ UNCHANGED <<mirror, entity, ck, parentDocumentId, rawChunks, chunksWithOverlap,
                   chunks, cpc, frames>>
    /\ UNCHANGED content
    /\ GroupFrame

\* One chunk: the update that stores embeddingId
SingleSave ==
    /\ gpc = "singleSave"
    /\ \E ok \in BOOLEAN :
        /\ mirror' = IF ok
                     THEN MirrorUpdateEmbeddingId(mirror, entity[1], Some(vec[Len(vec)].id))
                     ELSE mirror
        /\ log' = Append(log, LogEntry("save", 0, entity[1], None, ok))
        /\ createdChunks' = <<mirror'[entity[1]]>>
    /\ gpc' = "done"
    /\ UNCHANGED <<vec, entity, ck, parentDocumentId, rawChunks, chunksWithOverlap,
                   chunks, cpc, frames>>
    /\ UNCHANGED content
    /\ GroupFrame

\* Loop body, first await: strapi.documents(uid).create of the chunk's entry
GroupCreateEntity ==
    /\ gpc = "create"
    /\ \E ok \in BOOLEAN :
        LET chunk == chunks[ck]
            d == NewDocumentId(mirror, vec)
            chunkTitle == formatChunkTitle(GroupTitle, chunk.chunkIndex, chunk.totalChunks)
        IN IF ok
           THEN /\ mirror' = MirrorCreate(mirror,
                        MirrorRecord(d, chunkTitle, chunk.text, None,
                                     Some(ChunkMetadata(chunk, GroupTitle, parentDocumentId))))
                /\ entity' = Some(d)
                /\ log' = Append(log, LogEntry("create", chunk.chunkIndex, d,
                                               parentDocumentId, TRUE))
                /\ parentDocumentId' = AnchorOf(chunk.chunkIndex, parentDocumentId, d)
                /\ gpc' = IF chunk.chunkIndex = 0 THEN "embed" ELSE "link"
           ELSE /\ log' = Append(log, LogEntry("create", chunk.chunkIndex, "",
                                               parentDocumentId, FALSE))
                /\ gpc' = "threw"
                /\ UNCHANGED <<mirror, entity, parentDocumentId>>
    /\ UNCHANGED <<vec, ck, createdChunks, rawChunks, chunksWithOverlap, chunks, cpc, frames>>
    /\ UNCHANGED content
    /\ GroupFrame

\* Loop body, chunkIndex > 0: the update of the metadata with the parent
GroupLinkParent ==
    /\ gpc = "link"
    /\ \E ok \in BOOLEAN :
        /\ log' = Append(log, LogEntry("link", chunks[ck].chunkIndex, entity[1],
                                       parentDocumentId, ok))
        /\ IF ok
           THEN /\ mirror' = MirrorUpdateMetadata(mirror, entity[1],
                       Some(ChunkMetadata(chunks[ck], GroupTitle, parentDocumentId)))
                /\ gpc' = "embed"
           ELSE /\ gpc' = "threw"
                /\ UNCHANGED mirror
    /\ UNCHANGED <<vec, ck, parentDocumentId, createdChunks, entity, rawChunks,
                   chunksWithOverlap, chunks, cpc, frames>>
    /\ UNCHANGED content
    /\ GroupFrame

\* Loop body: pluginManager.createEmbedding when the plugin manager is
\* initialized, createdChunks.push(entity) otherwise and in the catch
GroupEmbed ==
    /\ gpc = "embed"
    /\ IF ~initialized
       THEN /\ createdChunks' = Append(createdChunks, mirror[entity[1]])
            /\ gpc' = NextChunk
            /\ ck' = ck + 1
            /\ UNCHANGED <<vec, log>>
       ELSE \E ok \in BOOLEAN :
            LET chunk == chunks[ck]
                chunkTitle == formatChunkTitle(GroupTitle, chunk.chunkIndex, chunk.totalChunks)
            IN IF ok
               THEN /\ vec' = VecInsert(vec, mirror, entity[1], chunkTitle, chunk.text)
                    /\ log' = Append(log, LogEntry("embed", chunk.chunkIndex, entity[1],
                                                   parentDocumentId, TRUE))
                    /\ gpc' = "save"
                    /\ UNCHANGED <<createdChunks, ck>>
               ELSE /\ log' = Append(log, LogEntry("embed", chunk.chunkIndex, entity[1],
                                                   parentDocumentId, FALSE))
                    /\ createdChunks' = Append(createdChunks, mirror[entity[1]])
                    /\ gpc' = OnEmbedFailed(NextChunk)
                    /\ ck' = ck + 1
                    /\ UNCHANGED vec
    /\ UNCHANGED <<mirror, parentDocumentId, entity, rawChunks, chunksWithOverlap,
                   chunks, cpc, frames>>
    /\ UNCHANGED content
    /\ GroupFrame

\* Loop body: the update that stores embeddingId; its failure is caught
\* by the same catch
GroupSave ==
    /\ gpc = "save"
    /\ \E ok \in BOOLEAN :
        /\ mirror' = IF ok
                     THEN MirrorUpdateEmbeddingId(mirror, entity[1], Some(vec[Len(vec)].id))
                     ELSE mirror
        /\ log' = Append(log, LogEntry("save", chunks[ck].chunkIndex, entity[1],
                                       parentDocumentId, ok))
        /\ createdChunks' = Append(createdChunks, mirror'[entity[1]])
        /\ gpc' = IF ok THEN NextChunk ELSE OnEmbedFailed(NextChunk)
    /\ ck' = ck + 1
    /\ UNCHANGED <<vec, parentDocumentId, entity, rawChunks, chunksWithOverlap,
                   chunks, cpc, frames>>
    /\ UNCHANGED content
    /\ GroupFrame

createChunkedEmbedding ==
    \/ GroupStart
    \/ SingleCreate
    \/ SingleEmbed
    \/ SingleSave
    \/ GroupCreateEntity
    \/ GroupLinkParent
    \/ GroupEmbed
    \/ GroupSave

\* What createChunkedEmbedding returns
GroupResult ==
    [entity |-> createdChunks[1], chunks |-> createdChunks,
     totalChunks |-> Len(createdChunks), wasChunked |-> Len(chunks) > 1]

GroupNext == createChunkedEmbedding

SpecGroup == GroupInit /\ [][GroupNext]_vars

\* ===================================================================
\* The plugin manager: createEmbedding
\* ===================================================================

maxRetries == 3
retryDelay == 2000

\* error.message of a failed embedQuery or INSERT: '429', 'rate', 'err'
ErrorMessages ==
    { <<"4", "2", "9">>, <<"r", "a", "t", "e">>, <<"e", "r", "r">> }

\* error.message?.includes("429") || error.message?.includes("rate")
isRateLimit(message) ==
    Includes(message, <<"4", "2", "9">>) \/ Includes(message, <<"r", "a", "t", "e">>)

isLastAttempt(n) == n = maxRetries

\* Where the catch goes: it waits before the next attempt, throws after
\* the last one, and otherwise falls out of the catch into the next
\* iteration of the for loop
AfterFailure(message, n) ==
    IF isRateLimit(message) /\ ~isLastAttempt(n) THEN "backoff"
    ELSE IF isLastAttempt(n) THEN "threw"
    ELSE "attempt"

\* One attempt as the history keeps it: its number, the message of its
\* failure (None: it succeeded) and the time waited after it
Attempt(n, message, waited) == [attempt |-> n, message |-> message, waited |-> waited]

DocDatas ==
    { [id |-> d, title |-> p[1], content |-> p[2]] : d \in DocIds, p \in VecPayloads }

RetryInit ==
    /\ ChunkerIdle
    /\ GroupIdle
    /\ ServiceIdle
    /\ initialized \in BOOLEAN
    /\ vec = <<>>
    /\ mirror = <<>>
    /\ pc = "idle"
    /\ options = [removeOrphans |-> FALSE, dryRun |-> FALSE]
    /\ neonEmbeddings = <<>>
    /\ strapiEmbeddings = <<>>
    /\ i = 1
    /\ result = EmptyResult(FALSE)
    /\ writes = <<>>
    /\ runs = 0
    /\ prevRun = None
    /\ status = None
    /\ entry = [vec |-> vec, mirror |-> mirror]
    /\ rpc = "idle"
    /\ attempt = 1
    /\ docData \in { Some(x) : x \in DocDatas }
    /\ rlog = <<>>
    /\ McpIdle

\* What no step of pluginManager.createEmbedding changes
RetryFrame ==
    UNCHANGED <<initialized, mirror, pc, options, neonEmbeddings, strapiEmbeddings,
                i, result, writes, runs, prevRun, status, entry,
                chunkerVars, groupVars, serviceVars, mcpVars, docData>>

\* Call entry: it throws when the plugin manager is not initialized
RetryEnter ==
    /\ rpc = "idle"
    /\ docData # None
    /\ rpc' = IF initialized THEN "attempt" ELSE "threw"
    /\ UNCHANGED <<vec, attempt, rlog>>
    /\ RetryFrame

\* One iteration of the for loop: embedQuery and the INSERT, or the catch
\* of the failure of one of them
RetryAttempt ==
    /\ rpc = "attempt"
    /\ \E failure \in {None} \cup { Some(m) : m \in ErrorMessages } :
        /\ rlog' = Append(rlog, Attempt(attempt, failure, 0))
        /\ IF failure = None
           THEN /\ vec' = VecInsert(vec, mirror, docData[1].id, docData[1].title, docData[1].content)
                /\ rpc' = "returned"
                /\ UNCHANGED attempt
           ELSE /\ rpc' = AfterFailure(failure[1], attempt)
                /\ attempt' = IF rpc' = "attempt" THEN attempt + 1 ELSE attempt
                /\ UNCHANGED vec
    /\ RetryFrame

\* setTimeout(resolve, retryDelay * attempt), then continue
RetryBackoff ==
    /\ rpc = "backoff"
    /\ rlog' = [rlog EXCEPT ![Len(rlog)].waited = retryDelay * attempt]
    /\ attempt' = attempt + 1
    /\ rpc' = "attempt"
    /\ UNCHANGED vec
    /\ RetryFrame

RetryNext ==
    \/ RetryEnter
    \/ RetryAttempt
    \/ RetryBackoff

SpecRetry == RetryInit /\ [][RetryNext]_vars

\* ===================================================================
\* The embeddings service: deleteEmbedding, deleteRelatedChunks,
\* updateEmbedding
\* ===================================================================

\* strapi.documents(uid).findMany({filters}): the documentIds of the
\* entries the filter keeps, in the order the store returns them
FindManyWhere(m, Keep(_)) ==
    SelectSeq(DocumentIdPool, LAMBDA d : d \in DOMAIN m /\ Keep(m[d]))

\* metadata?.chunkIndex ?? 0
ChunkIndexOf(r) ==
    IF MetadataOf(r) = None THEN 0 ELSE MetadataOf(r)[1].chunkIndex

\* allChunks.sort((a, b) => aIndex - bIndex), from chunkIndex j on
RECURSIVE SortByChunkIndex(_, _, _)
SortByChunkIndex(ids, m, j) ==
    IF \A k \in 1..Len(ids) : ChunkIndexOf(m[ids[k]]) < j THEN <<>>
    ELSE SelectSeq(ids, LAMBDA d : ChunkIndexOf(m[d]) = j)
         \o SortByChunkIndex(ids, m, j + 1)

\* Variant of findRelatedChunks: the entry and the entries that name it as
\* their parent
findRelatedChunks_ChildrenOnly(m, documentId) ==
    IF documentId \notin DOMAIN m THEN <<>>
    ELSE <<documentId>> \o FindManyWhere(m, LAMBDA r : ParentOf(r) = Some(documentId))

\* findRelatedChunks, as the documentIds of the entries it returns
findRelatedChunks(m, documentId) ==
    IF documentId \notin DOMAIN m THEN <<>>
    ELSE LET e == m[documentId]
             parentId == IF ParentOf(e) # None THEN ParentOf(e)[1] ELSE documentId
             isChunked == MetadataOf(e) # None /\ MetadataOf(e)[1].isChunk
         IN IF ~isChunked /\ ParentOf(e) = None
            THEN <<documentId>>
                 \o FindManyWhere(m, LAMBDA r : ParentOf(r) = Some(documentId))
            ELSE SortByChunkIndex(
                    FindManyWhere(m, LAMBDA r : \/ r.documentId = parentId
                                                \/ ParentOf(r) = Some(parentId)),
                    m, 0)

\* A text of n letters
Letters(n) == [k \in 1..n |-> "a"]

\* The contents a caller passes to updateEmbedding: two that fit in
\* chunkSize, one that preprocessing changes, one that needs chunking
ServiceTexts == {Letters(1), Letters(2), <<" ", "a">>, Letters(MaxChunkSize + 1)}

\* A call: deleteEmbedding(id), deleteRelatedChunks(id) or
\* updateEmbedding(id, {data: {title, content, autoChunk}}); autoChunk is
\* the value of autoChunk ?? config.autoChunk
Call(op, id, title, text, autoChunk) ==
    [op |-> op, id |-> id, title |-> title, content |-> text, autoChunk |-> autoChunk]

ServiceCalls(m) ==
    LET ids == DOMAIN m \cup {"none"}
    IN { Call(op, d, None, None, FALSE) :
            op \in {"deleteEmbedding", "deleteRelatedChunks"}, d \in ids }
       \cup { Call("updateEmbedding", d, t, c, a) :
                d \in ids, t \in {None, Some("u")},
                c \in {None} \cup { Some(x) : x \in ServiceTexts }, a \in BOOLEAN }

\* The entries createChunkedEmbedding leaves for the chunks chs of a
\* content, the k-th under ids[k], before any embeddingId is stored
GroupEntries(chs, ids) ==
    [k \in 1..Len(chs) |->
        MirrorRecord(ids[k],
                     formatChunkTitle(GroupTitle, chs[k].chunkIndex, chs[k].totalChunks),
                     chs[k].text, None,
                     Some(ChunkMetadata(chs[k], GroupTitle,
                                        IF k = 1 THEN None ELSE Some(ids[1]))))]

\* The mirror store after createChunkedEmbedding of a content of n letters,
\* of one of MaxChunkSize + 1 letters, and createEmbedding of one letter
StoredEntries(n) ==
    LET a == chunkContent(Letters(n), MaxChunkSize, 1)
        b == chunkContent(Letters(MaxChunkSize + 1), MaxChunkSize, 1)
        all == GroupEntries(a, SubSeq(DocumentIdPool, 1, Len(a)))
               \o GroupEntries(b, SubSeq(DocumentIdPool, Len(a) + 1, Len(a) + Len(b)))
               \o <<MirrorRecord(DocumentIdPool[Len(a) + Len(b) + 1],
                                 formatChunkTitle(GroupTitle, 0, 1), Letters(1), None, None)>>
    IN [d \in { all[k].documentId : k \in 1..Len(all) } |->
            all[CHOOSE k \in 1..Len(all) : all[k].documentId = d]]

\* Both stores after the embedding of the entries in embedded succeeded, in
\* the order the entries were created
RECURSIVE Embedded(_, _, _, _)
Embedded(m, v, embedded, k) ==
    IF k > Len(DocumentIdPool) THEN [mirror |-> m, vec |-> v]
    ELSE LET d == DocumentIdPool[k]
         IN IF d \in DOMAIN m /\ d \in embedded
            THEN LET rows == VecInsert(v, m, d, m[d].title, m[d].content)
                 IN Embedded(MirrorUpdateEmbeddingId(m, d, Some(rows[Len(rows)].id)),
                             rows, embedded, k + 1)
            ELSE Embedded(m, v, embedded, k + 1)

\* The stores hold two chunk groups and one entry that is not chunked; the
\* embedding of at most one entry failed
ServiceInit ==
    /\ GroupIdle
    /\ RetryIdle
    /\ McpIdle
    /\ initialized \in BOOLEAN
    /\ \E n \in (MaxChunkSize + 1)..MaxLen :
        \E stored \in {StoredEntries(n)} :
            \E failed \in DOMAIN stored \cup {"none"} :
                \E s \in {Embedded(stored, <<>>, DOMAIN stored \ {failed}, 1)} :
                    mirror = s.mirror /\ vec = s.vec
    /\ pc = "idle"
    /\ options = [removeOrphans |-> FALSE, dryRun |-> FALSE]
    /\ neonEmbeddings = <<>>
    /\ strapiEmbeddings = <<>>
    /\ i = 1
    /\ result = EmptyResult(FALSE)
    /\ writes = <<>>
    /\ runs = 0
    /\ prevRun = None
    /\ status = None
    /\ entry = [vec |-> vec, mirror |-> mirror]
    /\ content = <<>>
    /\ chunkSize = MaxChunkSize
    /\ chunkOverlap = 1
    /\ rawChunks = <<>>
    /\ chunksWithOverlap = <<>>
    /\ chunks = <<>>
    /\ cpc = "idle"
    /\ frames = <<>>
    /\ ServiceIdle

\* What no step of these calls changes
ServiceFrame ==
    UNCHANGED <<initialized, pc, options, neonEmbeddings, strapiEmbeddings, i,
                result, writes, runs, prevRun, status, chunkerVars, groupVars,
                retryVars, mcpVars, calls, updaters>>

SLog(op, d, ok) == [op |-> op, documentId |-> d, ok |-> ok]

Op(name) == call # None /\ call[1].op = name

\* Call entry of deleteEmbedding, deleteRelatedChunks and updateEmbedding
ServiceEnter(c) ==
    /\ spc = "idle"
    /\ call' = Some(c)
    /\ spc' = "find"
    /\ entry' = [vec |-> vec, mirror |-> mirror]
    /\ UNCHANGED <<vec, mirror, related, sk, slog>>
    /\ ServiceFrame

\* The call is made
ServiceCall == \E c \in ServiceCalls(mirror) : ServiceEnter(c)

\* Variant of DeleteStep: the vector store is left out
DeleteStep_MirrorOnly == "mirrorDelete"

\* The deletion loop of deleteRelatedChunks and the body of deleteEmbedding
\* start with the vector store when the plugin manager is initialized
DeleteStep == IF initialized THEN "vectorDelete" ELSE "mirrorDelete"

\* deleteEmbedding: findOne; it throws when there is no such entry
DeleteFindOne ==
    /\ spc = "find"
    /\ Op("deleteEmbedding")
    /\ \E ok \in BOOLEAN :
        spc' = IF ok /\ call[1].id \in DOMAIN mirror THEN DeleteStep ELSE "threw"
    /\ UNCHANGED <<vec, mirror, call, related, sk, slog, entry>>
    /\ ServiceFrame

\* deleteEmbedding: pluginManager.deleteEmbedding, its failure is caught
DeleteVector ==
    /\ spc = "vectorDelete"
    /\ Op("deleteEmbedding")
    /\ \E ok \in BOOLEAN :
        /\ vec' = IF ok THEN VecDelete(vec, call[1].id) ELSE vec
        /\ slog' = Append(slog, SLog("vectorDelete", call[1].id, ok))
    /\ spc' = "mirrorDelete"
    /\ UNCHANGED <<mirror, call, related, sk, entry>>
    /\ ServiceFrame

\* deleteEmbedding: strapi.documents(uid).delete
DeleteMirror ==
    /\ spc = "mirrorDelete"
    /\ Op("deleteEmbedding")
    /\ \E ok \in BOOLEAN :
        /\ mirror' = IF ok THEN MirrorDelete(mirror, call[1].id) ELSE mirror
        /\ slog' = Append(slog, SLog("mirrorDelete", call[1].id, ok))
        /\ spc' = IF ok THEN "done" ELSE "threw"
    /\ UNCHANGED <<vec, call, related, sk, entry>>
    /\ ServiceFrame

deleteEmbedding ==
    \/ DeleteFindOne
    \/ DeleteVector
    \/ DeleteMirror

\* deleteRelatedChunks: findRelatedChunks
RelatedFind ==
    /\ spc = "find"
    /\ Op("deleteRelatedChunks")
    /\ \E ok \in BOOLEAN :
        IF ok
        THEN /\ related' = findRelatedChunks(mirror, call[1].id)
             /\ spc' = IF Len(related') = 0 THEN "done" ELSE DeleteStep
        ELSE /\ spc' = "threw"
             /\ UNCHANGED related
    /\ sk' = 1
    /\ UNCHANGED <<vec, mirror, call, slog, entry>>
    /\ ServiceFrame

\* deleteRelatedChunks, loop body: pluginManager.deleteEmbedding of the
\* chunk, its failure is caught
RelatedVector ==
    /\ spc = "vectorDelete"
    /\ Op("deleteRelatedChunks")
    /\ \E ok \in BOOLEAN :
        /\ vec' = IF ok THEN VecDelete(vec, related[sk]) ELSE vec
        /\ slog' = Append(slog, SLog("vectorDelete", related[sk], ok))
    /\ spc' = "mirrorDelete"
    /\ UNCHANGED <<mirror, call, related, sk, entry>>
    /\ ServiceFrame

\* deleteRelatedChunks, loop body: strapi.documents(uid).delete of the chunk
RelatedMirror ==
    /\ spc = "mirrorDelete"
    /\ Op("deleteRelatedChunks")
    /\ \E ok \in BOOLEAN :
        /\ slog' = Append(slog, SLog("mirrorDelete", related[sk], ok))
        /\ IF ok
           THEN /\ mirror' = MirrorDelete(mirror, related[sk])
                /\ sk' = sk + 1
                /\ spc' = IF sk >= Len(related) THEN "done" ELSE DeleteStep
           ELSE /\ spc' = "threw"
                /\ UNCHANGED <<mirror, sk>>
    /\ UNCHANGED <<vec, call, related, entry>>
    /\ ServiceFrame

deleteRelatedChunks ==
    \/ RelatedFind
    \/ RelatedVector
    \/ RelatedMirror

\* updateEmbedding: currentEntry
CurrentEntry == entry.mirror[call[1].id]

\* updateEmbedding: content, the preprocessed rawContent (None: undefined)
UpdateContent ==
    IF call[1].content = None THEN None
    ELSE Some(Preprocessed(call[1].content[1], preprocess))

contentChanged == UpdateContent # None /\ UpdateContent[1] # CurrentEntry.content

\* updateEmbedding: hasRelatedChunks || contentNeedsChunking
Delegated ==
    LET md == MetadataOf(CurrentEntry)
        hasRelatedChunks == ParentOf(CurrentEntry) # None \/ (md # None /\ md[1].isChunk)
        newContent == IF UpdateContent # None THEN UpdateContent[1] ELSE CurrentEntry.content
        contentNeedsChunking == call[1].autoChunk /\ needsChunking(newContent, chunkSize)
    IN hasRelatedChunks \/ contentNeedsChunking

\* Variant of UpdatedTitle: the new title replaces the whole title
UpdatedTitle_SuffixLost(current, title, delegated) ==
    IF title = None THEN current ELSE [base |-> title[1], part |-> 0, of |-> 0]

\* updateData.title: updateChunkedEmbedding keeps the ' [Part i/N]' the
\* current title ends with, updateEmbedding stores the title as given
UpdatedTitle(current, title, delegated) ==
    IF title = None THEN current
    ELSE IF delegated THEN [current EXCEPT !.base = title[1]]
    ELSE [base |-> title[1], part |-> 0, of |-> 0]

\* Whether the vector store is updated after the entry
UpdatesVector ==
    /\ initialized
    /\ IF Delegated THEN contentChanged \/ call[1].title # None ELSE contentChanged

\* Where the call goes after its last write: updateChunkedEmbedding ends
\* with findRelatedChunks, updateEmbedding returns
UpdateEnd == IF Delegated THEN "related" ELSE "done"

\* updateEmbedding and updateChunkedEmbedding: findOne; they throw when
\* there is no such entry
UpdateFindOne ==
    /\ spc = "find"
    /\ Op("updateEmbedding")
    /\ \E ok \in BOOLEAN :
        spc' = IF ok /\ call[1].id \in DOMAIN mirror THEN "entityUpdate" ELSE "threw"
    /\ UNCHANGED <<vec, mirror, call, related, sk, slog, entry>>
    /\ ServiceFrame

\* strapi.documents(uid).update({documentId: id, data: updateData})
UpdateEntity ==
    /\ spc = "entityUpdate"
    /\ \E ok \in BOOLEAN :
        /\ slog' = Append(slog, SLog("entityUpdate", call[1].id, ok))
        /\ IF ok
           THEN /\ mirror' = [mirror EXCEPT
                        ![call[1].id].title =
                            UpdatedTitle(CurrentEntry.title, call[1].title, Delegated),
                        ![call[1].id].content =
                            IF UpdateContent = None THEN CurrentEntry.content
                            ELSE UpdateContent[1]]
                /\ spc' = IF UpdatesVector THEN "vectorDelete" ELSE UpdateEnd
           ELSE /\ spc' = "threw"
                /\ UNCHANGED mirror
    /\ UNCHANGED <<vec, call, related, sk, entry>>
    /\ ServiceFrame

\* pluginManager.deleteEmbedding(id); a failure goes to the catch
UpdateVectorDelete ==
    /\ spc = "vectorDelete"
    /\ Op("updateEmbedding")
    /\ \E ok \in BOOLEAN :
        /\ vec' = IF ok THEN VecDelete(vec, call[1].id) ELSE vec
        /\ slog' = Append(slog, SLog("vectorDelete", call[1].id, ok))
        /\ spc' = IF ok THEN "vectorCreate" ELSE UpdateEnd
    /\ UNCHANGED <<mirror, call, related, sk, entry>>
    /\ ServiceFrame

\* pluginManager.createEmbedding with the title and the content the entry
\* now has; a failure goes to the catch
UpdateVectorCreate ==
    /\ spc = "vectorCreate"
    /\ \E ok \in BOOLEAN :
        /\ vec' = IF ok
                  THEN VecInsert(vec, mirror, call[1].id, mirror[call[1].id].title,
                                 mirror[call[1].id].content)
                  ELSE vec
        /\ slog' = Append(slog, SLog("vectorCreate", call[1].id, ok))
        /\ spc' = IF ok THEN "save" ELSE UpdateEnd
    /\ UNCHANGED <<mirror, call, related, sk, entry>>
    /\ ServiceFrame

\* The update that stores the new embeddingId; a failure goes to the catch
UpdateSave ==
    /\ spc = "save"
    /\ \E ok \in BOOLEAN :
        /\ mirror' = IF ok
                     THEN MirrorUpdateEmbeddingId(mirror, call[1].id, Some(vec[Len(vec)].id))
                     ELSE mirror
        /\ slog' = Append(slog, SLog("save", call[1].id, ok))
    /\ spc' = UpdateEnd
    /\ UNCHANGED <<vec, call, related, sk, entry>>
    /\ ServiceFrame

\* updateChunkedEmbedding: findRelatedChunks(id) for the result
UpdateRelated ==
    /\ spc = "related"
    /\ \E ok \in BOOLEAN :
        /\ related' = IF ok THEN findRelatedChunks(mirror, call[1].id) ELSE related
        /\ spc' = IF ok THEN "done" ELSE "threw"
    /\ UNCHANGED <<vec, mirror, call, sk, slog, entry>>
    /\ ServiceFrame

updateEmbedding ==
    \/ UpdateFindOne
    \/ UpdateEntity
    \/ UpdateVectorDelete
    \/ UpdateVectorCreate
    \/ UpdateSave
    \/ UpdateRelated

ServiceNext ==
    \/ ServiceCall
    \/ deleteEmbedding
    \/ deleteRelatedChunks
    \/ updateEmbedding

SpecService == ServiceInit /\ [][ServiceNext]_vars

\* ===================================================================
\* The calls of the embeddings service and of the sync service made one
\* after the other on the same two stores
\* ===================================================================

\* The contents a caller passes to createEmbedding and to
\* createChunkedEmbedding: one that fits in chunkSize, one that
\* preprocessing empties, one that needs chunking
LifeTexts == {Letters(1), <<" ">>, Letters(MaxChunkSize + 1)}

\* No call is running, and fewer than MaxCalls calls have been made
Quiet == pc = "idle" /\ gpc = "idle" /\ spc = "idle" /\ calls < MaxCalls

\* The running call has returned or thrown
CallEnded == pc = "done" \/ gpc \in {"done", "threw"} \/ spc \in {"done", "threw"}

\* The row that stays behind when createEmbedding stored an entry and its
\* row, and the deleteEmbedding of that entry failed to delete the row
LeftBehind ==
    VecInsert(<<>>, <<>>, NewDocumentId(<<>>, <<>>),
              formatChunkTitle(GroupTitle, 0, 1), Letters(1))

\* The calls start on two empty stores, or on the stores that a
\* createEmbedding and a deleteEmbedding made before them have left; the
\* plugin manager is initialized or not for as long as the server runs
LifeInit ==
    /\ GroupIdle
    /\ ServiceIdle
    /\ RetryIdle
    /\ McpIdle
    /\ initialized \in BOOLEAN
    /\ vec \in IF initialized THEN {<<>>, LeftBehind} ELSE {<<>>}
    /\ mirror = <<>>
    /\ pc = "idle"
    /\ options = [removeOrphans |-> FALSE, dryRun |-> FALSE]
    /\ neonEmbeddings = <<>>
    /\ strapiEmbeddings = <<>>
    /\ i = 1
    /\ result = EmptyResult(FALSE)
    /\ writes = <<>>
    /\ runs = 0
    /\ prevRun = None
    /\ status = None
    /\ entry = [vec |-> vec, mirror |-> mirror]
    /\ content = <<>>
    /\ chunkSize = MaxChunkSize
    /\ chunkOverlap = 1
    /\ rawChunks = <<>>
    /\ chunksWithOverlap = <<>>
    /\ chunks = <<>>
    /\ cpc = "idle"
    /\ frames = <<>>

\* The running call returns or throws to its caller: nothing is left of it
\* but what it wrote to the two stores
LifeReturn ==
    /\ CallEnded
    /\ pc' = "idle"
    /\ options' = [removeOrphans |-> FALSE, dryRun |-> FALSE]
    /\ neonEmbeddings' = <<>>
    /\ strapiEmbeddings' = <<>>
    /\ i' = 1
    /\ result' = EmptyResult(FALSE)
    /\ writes' = <<>>
    /\ runs' = 0
    /\ prevRun' = None
    /\ status' = None
    /\ entry' = [vec |-> vec, mirror |-> mirror]
    /\ content' = <<>>
    /\ rawChunks' = <<>>
    /\ chunksWithOverlap' = <<>>
    /\ chunks' = <<>>
    /\ cpc' = "idle"
    /\ frames' = <<>>
    /\ gpc' = "idle"
    /\ ck' = 1
    /\ parentDocumentId' = None
    /\ createdChunks' = <<>>
    /\ entity' = None
    /\ log' = <<>>
    /\ rawContent' = <<>>
    /\ spc' = "idle"
    /\ call' = None
    /\ related' = <<>>
    /\ sk' = 1
    /\ slog' = <<>>
    /\ calls' = calls + 1
    /\ UNCHANGED updaters
    /\ UNCHANGED <<initialized, vec, mirror, chunkSize, chunkOverlap, preprocess, retryVars, mcpVars>>

\* A call of syncFromNeon
LifeSync ==
    /\ Quiet
    /\ \E removeOrphans \in BOOLEAN, dryRun \in BOOLEAN : SyncStart(removeOrphans, dryRun)

\* A call of createEmbedding
LifeCreate ==
    /\ Quiet
    /\ \E raw \in LifeTexts, autoChunk \in BOOLEAN : CreateEnter(raw, autoChunk)

\* A call of createChunkedEmbedding
LifeCreateChunked ==
    /\ Quiet
    /\ \E raw \in LifeTexts : CreateChunkedEnter(raw)

\* The calls of deleteEmbedding, deleteRelatedChunks and updateEmbedding
\* made on the entries of m: an update passes a title, or a content that
\* fits in chunkSize, or neither
LifeCalls(m) ==
    { c \in ServiceCalls(m) :
        c.op = "updateEmbedding" =>
            /\ c.content \in {None, Some(Letters(2))}
            /\ c.title = None \/ c.content = None
            /\ ~c.autoChunk }

\* A call of deleteEmbedding, deleteRelatedChunks or updateEmbedding
LifeService ==
    /\ Quiet
    /\ \E c \in LifeCalls(mirror) :
        ServiceEnter(c)

\* What no step of recreateAllEmbeddings changes
RecreateFrame ==
    UNCHANGED <<initialized, pc, options, neonEmbeddings, i, result, writes,
                runs, prevRun, status, chunkerVars, groupVars, retryVars, mcpVars, related,
                calls, updaters>>

\* The position after the iteration of the sk-th entry
NextEntry == IF sk >= Len(strapiEmbeddings) THEN "done" ELSE "recreate"

\* recreateAllEmbeddings, call entry: the isInitialized check
RecreateEnter ==
    /\ spc = "idle"
    /\ call' = Some(Call("recreateAllEmbeddings", "none", None, None, FALSE))
    /\ entry' = [vec |-> vec, mirror |-> mirror]
    /\ IF initialized
       THEN spc' = "clear" /\ UNCHANGED slog
       ELSE spc' = "done" /\ slog' = Append(slog, SLog("notInitialized", "", FALSE))
    /\ UNCHANGED <<vec, mirror, strapiEmbeddings, sk>>
    /\ RecreateFrame

\* Step 1: pluginManager.clearAllNeonEmbeddings; its failure goes to the
\* outer catch, which returns the result
RecreateClear ==
    /\ spc = "clear"
    /\ \E ok \in BOOLEAN :
        /\ vec' = IF ok THEN <<>> ELSE vec
        /\ slog' = Append(slog, SLog("clear", "", ok))
        /\ spc' = IF ok THEN "load" ELSE "done"
    /\ UNCHANGED <<mirror, call, strapiEmbeddings, sk, entry>>
    /\ RecreateFrame

\* Step 2: findMany({limit: -1}); with no entry the call returns
RecreateLoad ==
    /\ spc = "load"
    /\ \E ok \in BOOLEAN :
        /\ strapiEmbeddings' = IF ok THEN FindMany(mirror) ELSE strapiEmbeddings
        /\ slog' = Append(slog, SLog("load", "", ok))
        /\ spc' = IF ok /\ Len(strapiEmbeddings') > 0 THEN "recreate" ELSE "done"
    /\ sk' = 1
    /\ UNCHANGED <<vec, mirror, call, entry>>
    /\ RecreateFrame

\* Step 3, loop body: an entry without content is skipped; for the others
\* pluginManager.createEmbedding, its failure is caught
RecreateEntry ==
    /\ spc = "recreate"
    /\ LET e == strapiEmbeddings[sk]
       IN IF e.content = <<>>
          THEN /\ slog' = Append(slog, SLog("noContent", e.documentId, FALSE))
               /\ spc' = NextEntry
               /\ sk' = sk + 1
               /\ UNCHANGED vec
          ELSE \E ok \in BOOLEAN :
               /\ slog' = Append(slog, SLog("vectorCreate", e.documentId, ok))
               /\ IF ok
                  THEN /\ vec' = VecInsert(vec, mirror, e.documentId, e.title, e.content)
                       /\ spc' = "recreateSave"
                       /\ UNCHANGED sk
                  ELSE /\ spc' = NextEntry
                       /\ sk' = sk + 1
                       /\ UNCHANGED vec
    /\ UNCHANGED <<mirror, call, strapiEmbeddings, entry>>
    /\ RecreateFrame

\* Step 3, loop body: the update that stores the new embeddingId; its
\* failure is caught by the same catch
RecreateSave ==
    /\ spc = "recreateSave"
    /\ \E ok \in BOOLEAN :
        /\ mirror' = IF ok
                     THEN MirrorUpdateEmbeddingId(mirror, strapiEmbeddings[sk].documentId,
                                                  Some(vec[Len(vec)].id))
                     ELSE mirror
        /\ slog' = Append(slog, SLog("save", strapiEmbeddings[sk].documentId, ok))
    /\ spc' = NextEntry
    /\ sk' = sk + 1
    /\ UNCHANGED <<vec, call, strapiEmbeddings, entry>>
    /\ RecreateFrame

\* A call of recreateAllEmbeddings
LifeRecreate ==
    /\ Quiet
    /\ RecreateEnter

recreateAllEmbeddings ==
    \/ LifeRecreate
    \/ RecreateClear
    \/ RecreateLoad
    \/ RecreateEntry
    \/ RecreateSave

\* Any of the calls is made when none is running, and runs to its end
LifeNext ==
    \/ LifeReturn
    \/ LifeSync
    \/ SyncLoadNeon
    \/ SyncLoadStrapi
    \/ SyncCreate
    \/ SyncUpdate
    \/ SyncKeep
    \/ SyncStep3Done
    \/ SyncRemoveOrphan
    \/ SyncKeepEntry
    \/ SyncStep4Done
    \/ LifeCreate
    \/ LifeCreateChunked
    \/ SingleCreate
    \/ SingleEmbed
    \/ SingleSave
    \/ GroupCreateEntity
    \/ GroupLinkParent
    \/ GroupEmbed
    \/ GroupSave
    \/ LifeService
    \/ deleteEmbedding
    \/ deleteRelatedChunks
    \/ updateEmbedding
    \/ recreateAllEmbeddings

SpecLifecycle == LifeInit /\ [][LifeNext]_vars



\* ===================================================================
\* Properties of the sync service
\* ===================================================================

\* The call has returned, and it got past loading both snapshots
Returned == pc = "done"

LoadedOK ==
    \A k \in 1..Len(result.errors) :
        result.errors[k].kind \notin {"notInitialized", "syncFailed"}

RECURSIVE Filter(_, _)
Filter(seq, keep) ==
    IF seq = <<>> THEN <<>>
    ELSE (IF Head(seq) \in keep THEN <<Head(seq)>> ELSE <<>>) \o Filter(Tail(seq), keep)

Range(seq) == { seq[k] : k \in 1..Len(seq) }

\* The classification of section 4.3, stated on the two snapshots
SnapshotIds == { e.documentId : e \in Range(strapiEmbeddings) }

SnapshotEntry(d) == CHOOSE e \in Range(strapiEmbeddings) : e.documentId = d

RowsWithoutId == { n \in Range(neonEmbeddings) : n.strapiId = None }

RowsToCreate ==
    { n \in Range(neonEmbeddings) : n.strapiId # None /\ n.strapiId[1] \notin SnapshotIds }

RowsToUpdate ==
    { n \in Range(neonEmbeddings) :
        /\ n.strapiId # None
        /\ n.strapiId[1] \in SnapshotIds
        /\ LET e == SnapshotEntry(n.strapiId[1])
           IN e.content # n.content \/ e.title # n.title \/ e.embeddingId = None }

OrphanEntries ==
    { e \in Range(strapiEmbeddings) :
        \A n \in Range(neonEmbeddings) : n.strapiId # Some(e.documentId) }

DocIdsOf(rows) == [k \in 1..Len(rows) |-> rows[k].strapiId[1]]
EntryIdsOf(entries) == [k \in 1..Len(entries) |-> entries[k].documentId]
WriteIdsOf(ws) == [k \in 1..Len(ws) |-> ws[k].documentId]

WritesOf(op) == Filter(writes, { w \in Range(writes) : w.op = op })
OkWritesOf(op) == Filter(writes, { w \in Range(writes) : w.op = op /\ w.ok })

\* What the call classified: the writes it issued, or in a dry run the
\* entries of its report
Classified(op, detail) ==
    IF options.dryRun THEN detail ELSE WriteIdsOf(WritesOf(op))

ExpectedCreates == DocIdsOf(Filter(neonEmbeddings, RowsToCreate))
ExpectedUpdates == DocIdsOf(Filter(neonEmbeddings, RowsToUpdate))
ExpectedOrphans == EntryIdsOf(Filter(strapiEmbeddings, OrphanEntries))

\* C2: a dry run issues no write, leaves both stores as it found them, and
\* its report counts and lists every create, update and orphan removal that
\* the classification of the two snapshots yields.
C2_DryRunNonDestructive ==
    (pc # "idle" /\ options.dryRun) =>
        /\ writes = <<>>
        /\ vec = entry.vec
        /\ mirror = entry.mirror
        /\ (Returned /\ LoadedOK) =>
            /\ result.details.created = ExpectedCreates
            /\ result.details.updated = ExpectedUpdates
            /\ result.details.orphansRemoved =
                  (IF options.removeOrphans THEN ExpectedOrphans ELSE <<>>)
            /\ result.actions.created = Len(ExpectedCreates)
            /\ result.actions.updated = Len(ExpectedUpdates)
            /\ result.actions.orphansRemoved = Len(result.details.orphansRemoved)

C2_Witness ==
    /\ Returned /\ LoadedOK /\ options.dryRun /\ options.removeOrphans
    /\ result.actions.created >= 1
    /\ result.actions.orphansRemoved >= 1
    /\ mirror = entry.mirror

\* C3: every vector row with a strapiId is classified exactly once: create
\* when the snapshot has no entry of that documentId, update when the entry
\* differs in content or title or has no embeddingId, nothing otherwise; a
\* create that succeeds stores an entry holding the row's title, content,
\* collectionType and fieldName and the row's own id as embeddingId, and an
\* update that succeeds overwrites title, content and embeddingId.
C3_Classification ==
    /\ (Returned /\ LoadedOK) =>
        /\ Classified("create", result.details.created) = ExpectedCreates
        /\ Classified("update", result.details.updated) = ExpectedUpdates
        /\ RowsToCreate \cap RowsToUpdate = {}
    /\ (pc = "step3" /\ i > 1 /\ writes # <<>>) =>
        LET w == writes[Len(writes)]
            neon == neonEmbeddings[i - 1]
        IN (w.neonId = neon.id /\ w.ok) =>
            /\ w.documentId \in DOMAIN mirror
            /\ mirror[w.documentId].title = neon.title
            /\ mirror[w.documentId].content = neon.content
            /\ mirror[w.documentId].embeddingId = Some(neon.id)
            /\ w.op = "create" =>
                /\ mirror[w.documentId].collectionType = neon.collectionType
                /\ mirror[w.documentId].fieldName = neon.fieldName

C3_Witness ==
    /\ Returned /\ LoadedOK /\ ~options.dryRun
    /\ \E w \in Range(writes) : w.op = "create" /\ w.ok
    /\ \E w \in Range(writes) : w.op = "update" /\ w.ok

\* C4: with removeOrphans the entries classified for deletion are exactly
\* the snapshot entries whose documentId is the strapiId of no vector row;
\* without it no entry is ever deleted.
C4_OrphanRemoval ==
    /\ (Returned /\ LoadedOK /\ options.removeOrphans) =>
          Classified("delete", result.details.orphansRemoved) = ExpectedOrphans
    /\ (pc # "idle" /\ ~options.removeOrphans) =>
        /\ WritesOf("delete") = <<>>
        /\ result.details.orphansRemoved = <<>>
        /\ DOMAIN entry.mirror \subseteq DOMAIN mirror

C4_Witness ==
    /\ Returned /\ LoadedOK /\ options.removeOrphans /\ ~options.dryRun
    /\ Len(strapiEmbeddings) = 2
    /\ \E w \in Range(writes) : w.op = "delete" /\ w.ok
    /\ DOMAIN mirror # {}


\* The error entries of the given kinds, in order, as the ids they name
ErrorIdsOf(kinds) ==
    LET es == Filter(result.errors, { e \in Range(result.errors) : e.kind \in kinds })
    IN [k \in 1..Len(es) |-> es[k].id]

FailedWrites == Filter(writes, { w \in Range(writes) : ~w.ok })

\* C5: in a run that is not a dry run, every classified create, update and
\* orphan removal is attempted whatever the outcome of the writes before
\* it, and every failed write is appended to errors, in order.
C5_FailureIsolation ==
    (Returned /\ LoadedOK /\ ~options.dryRun) =>
        /\ WriteIdsOf(WritesOf("create")) = ExpectedCreates
        /\ WriteIdsOf(WritesOf("update")) = ExpectedUpdates
        /\ WriteIdsOf(WritesOf("delete")) =
              (IF options.removeOrphans THEN ExpectedOrphans ELSE <<>>)
        /\ ErrorIdsOf({"createFailed", "updateFailed", "orphanFailed"})
              = WriteIdsOf(FailedWrites)

C5_Witness ==
    /\ Returned /\ LoadedOK /\ ~options.dryRun
    /\ Len(writes) >= 3
    /\ ~writes[1].ok
    /\ writes[2].ok
    /\ ~writes[3].ok
    /\ Len(result.errors) = 2

\* C6 as claimed: each count is the number of actions of its kind that
\* were attempted, failed writes included.
C6_CountsAttempted ==
    (Returned /\ LoadedOK /\ ~options.dryRun) =>
        /\ result.actions.created = Len(WritesOf("create"))
        /\ result.actions.updated = Len(WritesOf("update"))
        /\ result.actions.orphansRemoved = Len(WritesOf("delete"))

\* C6, amended: in a run that is not a dry run each count is the number of
\* writes of its kind that succeeded, and details lists exactly those; a
\* failed write is counted nowhere and appears only in errors.
C6_CountsSucceeded ==
    (Returned /\ LoadedOK /\ ~options.dryRun) =>
        /\ result.actions.created = Len(OkWritesOf("create"))
        /\ result.actions.updated = Len(OkWritesOf("update"))
        /\ result.actions.orphansRemoved = Len(OkWritesOf("delete"))
        /\ result.details.created = WriteIdsOf(OkWritesOf("create"))
        /\ result.details.updated = WriteIdsOf(OkWritesOf("update"))
        /\ result.details.orphansRemoved = WriteIdsOf(OkWritesOf("delete"))
        /\ Len(result.errors) >= Len(FailedWrites)

C6_Witness ==
    /\ Returned /\ LoadedOK /\ ~options.dryRun
    /\ \E w \in Range(writes) : w.op = "create" /\ ~w.ok
    /\ \E w \in Range(writes) : w.op = "create" /\ w.ok
    /\ result.actions.created = 1

\* C7: in every report that syncFromNeon returns, success is true exactly
\* when errors is empty.
C7_SuccessIffNoErrors ==
    Returned => (result.success <=> Len(result.errors) = 0)

C7_Witness ==
    /\ Returned
    /\ ~result.success
    /\ \E e \in Range(result.errors) : e.kind = "syncFailed"
    /\ result.neonCount > 0


\* C8 as claimed: every create write is issued before any update write,
\* and every update write before any orphan delete.
C8_CreateUpdateDeletePhases ==
    \A j, k \in 1..Len(writes) :
        j < k =>
            /\ ~(writes[j].op = "update" /\ writes[k].op = "create")
            /\ ~(writes[j].op = "delete" /\ writes[k].op \in {"create", "update"})

\* C8, amended: every create and every update write is issued before any
\* orphan delete; creates and updates are not separated into phases, they
\* are issued in the order of the vector rows (ascending row id), and the
\* deletes in the order of the mirror snapshot.
C8_WritesBeforeDeletes ==
    \A j, k \in 1..Len(writes) :
        j < k =>
            /\ ~(writes[j].op = "delete" /\ writes[k].op \in {"create", "update"})
            /\ (writes[j].op # "delete" /\ writes[k].op # "delete")
                  => writes[j].neonId < writes[k].neonId
            /\ (writes[j].op = "delete" /\ writes[k].op = "delete")
                  => \E a, b \in 1..Len(strapiEmbeddings) :
                        /\ a < b
                        /\ strapiEmbeddings[a].documentId = writes[j].documentId
                        /\ strapiEmbeddings[b].documentId = writes[k].documentId

C8_Witness ==
    /\ Returned
    /\ Len(writes) = 3
    /\ writes[1].op = "update"
    /\ writes[2].op = "update"
    /\ writes[3].op = "delete"

\* C9: every vector row without a strapiId gets one error that names the
\* row, in row order, gets no create and no update, and the rows after it
\* are still classified.
C9_MissingIdReported ==
    (Returned /\ LoadedOK) =>
        LET es == Filter(result.errors,
                         { e \in Range(result.errors) : e.kind = "noStrapiId" })
            rows == Filter(neonEmbeddings, RowsWithoutId)
        IN /\ [k \in 1..Len(es) |-> es[k].neonId] = [k \in 1..Len(rows) |-> rows[k].id]
           /\ \A w \in Range(writes) :
                 \A n \in RowsWithoutId : w.neonId # n.id
           /\ Len(Classified("create", result.details.created))
                + Len(Classified("update", result.details.updated))
                = Len(neonEmbeddings) - Len(rows)
                  - Cardinality({ n \in Range(neonEmbeddings) :
                                    n.strapiId # None
                                    /\ n \notin RowsToCreate \cup RowsToUpdate })
           /\ ~result.success \/ rows = <<>>

C9_Witness ==
    /\ Returned /\ LoadedOK
    /\ Len(neonEmbeddings) = 2
    /\ neonEmbeddings[1].strapiId = None
    /\ neonEmbeddings[2].strapiId # None
    /\ result.actions.created = 1
    /\ \E e \in Range(result.errors) : e.kind = "noStrapiId" /\ e.neonId = 1

\* C10: getSyncStatus leaves both stores as it found them and returns the
\* number of vector rows whose strapiId has no mirror entry, the number of
\* mirror entries whose documentId is the strapiId of no vector row, the
\* number of vector rows whose mirror entry has other content, and inSync
\* true exactly when the three are zero.
C10_SyncStatus ==
    (status # None) =>
        /\ vec = entry.vec
        /\ mirror = entry.mirror
        /\ ~status[1].threw =>
            LET st == status[1].value
                rows == 1..Len(vec)
                missingInStrapi ==
                    { k \in rows : /\ vec[k].strapiId # None
                                   /\ vec[k].strapiId[1] \notin DOMAIN mirror }
                missingInNeon ==
                    { d \in DOMAIN mirror : \A k \in rows : vec[k].strapiId # Some(d) }
                contentDifferences ==
                    { k \in rows : /\ vec[k].strapiId # None
                                   /\ vec[k].strapiId[1] \in DOMAIN mirror
                                   /\ mirror[vec[k].strapiId[1]].content # vec[k].content }
            IN /\ st.missingInStrapi = Cardinality(missingInStrapi)
               /\ st.missingInNeon = Cardinality(missingInNeon)
               /\ st.contentDifferences = Cardinality(contentDifferences)
               /\ st.inSync <=> /\ st.missingInStrapi = 0
                                /\ st.missingInNeon = 0
                                /\ st.contentDifferences = 0
               /\ st.neonCount = Len(vec)
               /\ st.strapiCount = Cardinality(DOMAIN mirror)

C10_Witness ==
    /\ status # None
    /\ ~status[1].threw
    /\ status[1].value.missingInStrapi = 1
    /\ status[1].value.missingInNeon = 1
    /\ status[1].value.contentDifferences = 0
    /\ ~status[1].value.inSync

\* C1 as claimed, read in its most favourable way: a run that is not a dry
\* run, made right after a run with the same removeOrphans in which no
\* store call failed, reports no create, no update and no orphan removal.
C1_SecondRunDoesNothing ==
    (/\ Returned
     /\ prevRun # None
     /\ ~options.dryRun
     /\ ~prevRun[1].options.dryRun
     /\ prevRun[1].options.removeOrphans = options.removeOrphans
     /\ ~prevRun[1].storeFailure) =>
            /\ result.actions.created = 0
            /\ result.actions.updated = 0
            /\ result.actions.orphansRemoved = 0

\* C11 as claimed: what getSyncStatus computes from the two snapshots of a
\* dry run with removeOrphans equals what that dry run reports:
\* missingInStrapi = created, contentDifferences = updated,
\* missingInNeon = orphansRemoved, and inSync exactly when all three
\* reported counts are zero.
C11_StatusMatchesDryRun ==
    (/\ Returned
     /\ LoadedOK
     /\ options.dryRun
     /\ options.removeOrphans) =>
        LET st == SyncStatus(neonEmbeddings, strapiEmbeddings)
        IN /\ st.missingInStrapi = result.actions.created
           /\ st.contentDifferences = result.actions.updated
           /\ st.missingInNeon = result.actions.orphansRemoved
           /\ st.inSync <=> /\ result.actions.created = 0
                            /\ result.actions.updated = 0
                            /\ result.actions.orphansRemoved = 0


\* ===================================================================
\* Properties of the text chunker
\* ===================================================================

\* chunkContent has returned
Chunked == cpc = "done"

\* The text without its leading and trailing white space
Trimmed(text) ==
    LET solid == { k \in 1..Len(text) : text[k] \notin {" ", "\n"} }
    IN IF solid = {} THEN <<>>
       ELSE SubSeq(text,
                   CHOOSE k \in solid : \A h \in solid : k <= h,
                   CHOOSE k \in solid : \A h \in solid : k >= h)

RECURSIVE Concat(_)
Concat(seqs) == IF seqs = <<>> THEN <<>> ELSE Head(seqs) \o Concat(Tail(seqs))

\* The characters of the trimmed content in [startOffset, endOffset)
RawSpan(c) == SubSeq(Trimmed(content), c.startOffset + 1, c.endOffset)

\* C12 as claimed: the offset ranges of the returned chunks start at 0,
\* each starts where the previous one ended, the last ends at the length of
\* the trimmed text, and the spans put together are the trimmed text.
C12_ChunkCoverage ==
    (Chunked /\ chunks # <<>>) =>
        /\ chunks[1].startOffset = 0
        /\ \A k \in 2..Len(chunks) : chunks[k].startOffset = chunks[k - 1].endOffset
        /\ chunks[Len(chunks)].endOffset = Len(Trimmed(content))
        /\ Concat([k \in 1..Len(chunks) |-> RawSpan(chunks[k])]) = Trimmed(content)

\* C13: every returned chunk's text, overlap included, is at most chunkSize
\* characters long.
C13_ChunkSizing ==
    Chunked => \A k \in 1..Len(chunks) : Len(chunks[k].text) <= chunkSize

C13_Witness ==
    /\ Chunked
    /\ chunkOverlap > 0
    /\ Len(chunks) >= 2
    /\ \E k \in 2..Len(chunks) :
        /\ Len(chunks[k].text) = chunkSize
        /\ chunks[k].endOffset - chunks[k].startOffset < chunkSize

\* C14: the n returned chunks carry chunkIndex 0..n-1 in order and
\* totalChunks n, also when empty pieces were dropped.
C14_IndexContiguity ==
    Chunked => \A k \in 1..Len(chunks) :
                  /\ chunks[k].chunkIndex = k - 1
                  /\ chunks[k].totalChunks = Len(chunks)

C14_Witness ==
    /\ Chunked
    /\ Len(chunks) >= 2
    /\ Len(chunks) < Len(rawChunks)
    /\ \E k \in 1..(Len(rawChunks) - 1) :
        Trimmed(chunksWithOverlap[k]) = <<>>

\* The raw chunks whose text, overlap included, is not empty after trimming
Kept == { k \in 1..Len(chunksWithOverlap) : Trimmed(chunksWithOverlap[k]) # <<>> }

\* The raw chunk the m-th returned chunk was made of
RawOf(m) == CHOOSE k \in Kept : Cardinality({ h \in Kept : h < k }) = m - 1

\* The last min(n, length) characters of a text
Tail_(text, n) ==
    [k \in 1..(IF n < Len(text) THEN n ELSE Len(text)) |->
        text[Len(text) - (IF n < Len(text) THEN n ELSE Len(text)) + k]]

Unbroken(text) == \A k \in 1..Len(text) : text[k] = "a"

\* ceil(n / d)
CeilDiv(n, d) == (n + d - 1) \div d

\* C16: a text longer than chunkSize that contains no separator is cut into
\* exactly ceil(L / (chunkSize - chunkOverlap)) chunks, each at most
\* chunkSize long and each carrying that count as totalChunks.
C16_UnbrokenText ==
    (Chunked /\ Unbroken(content) /\ Len(content) > chunkSize) =>
        /\ Len(chunks) = CeilDiv(Len(content), chunkSize - chunkOverlap)
        /\ \A k \in 1..Len(chunks) :
            /\ Len(chunks[k].text) <= chunkSize
            /\ chunks[k].totalChunks = CeilDiv(Len(content), chunkSize - chunkOverlap)

C16_Witness ==
    /\ Chunked
    /\ Unbroken(content)
    /\ Len(content) = 5
    /\ chunkSize = 3
    /\ chunkOverlap = 1
    /\ Len(chunks) = 3

\* C17: an empty trimmed text gives no chunk; a trimmed text of at most
\* chunkSize characters gives exactly one chunk, the whole trimmed text,
\* with chunkIndex 0, totalChunks 1 and offsets 0 and the trimmed length.
C17_SmallInput ==
    Chunked =>
        /\ Trimmed(content) = <<>> => chunks = <<>>
        /\ (Trimmed(content) # <<>> /\ Len(Trimmed(content)) <= chunkSize) =>
            chunks = <<[text |-> Trimmed(content), chunkIndex |-> 0, totalChunks |-> 1,
                        startOffset |-> 0, endOffset |-> Len(Trimmed(content))]>>

C17_Witness ==
    /\ Chunked
    /\ Len(chunks) = 1
    /\ Len(content) = Len(chunks[1].text) + 2
    /\ content[1] = " "
    /\ content[Len(content)] = "\n"
    /\ Len(chunks[1].text) = chunkSize

C17_WitnessEmpty ==
    /\ Chunked
    /\ Len(content) >= 2
    /\ chunks = <<>>


\* ===================================================================
\* Properties of createChunkedEmbedding
\* ===================================================================

\* The call has returned, for content that gave more than one chunk
GroupReturned == gpc = "done" /\ Len(chunks) > 1

LogIndexes(op) == { k \in 1..Len(log) : log[k].op = op }

\* The documentIds of the entries the call created
CreatedIds == { log[k].documentId : k \in { h \in LogIndexes("create") : log[h].ok } }

\* The documentId of the entry created for the chunk with index j
CreatedFor(j) ==
    log[CHOOSE k \in LogIndexes("create") : log[k].ok /\ log[k].chunkIndex = j].documentId

C19_AnchorFirst ==
    /\ \A a \in LogIndexes("create"), b \in LogIndexes("create") :
        a < b => log[a].chunkIndex < log[b].chunkIndex
    /\ \A k \in LogIndexes("create") \cup LogIndexes("link") :
        log[k].chunkIndex > 0 =>
            /\ log[k].parentDocumentId # None
            /\ \E h \in 1..(k - 1) :
                /\ log[h].op = "create"
                /\ log[h].ok
                /\ log[h].chunkIndex = 0
                /\ log[k].parentDocumentId = Some(log[h].documentId)
    /\ \A d \in DOMAIN mirror :
        (mirror[d].metadata # None /\ mirror[d].metadata[1].chunkIndex > 0) =>
            mirror[d].metadata[1].parentDocumentId # None

C19_Witness ==
    /\ Len(chunks) >= 3
    /\ \E a \in LogIndexes("create"), b \in LogIndexes("create"), c \in LogIndexes("link") :
        /\ log[a].chunkIndex = 1 /\ log[a].ok /\ log[a].parentDocumentId = Some("c1")
        /\ log[b].chunkIndex = 2 /\ log[b].ok
        /\ log[c].chunkIndex = 2 /\ log[c].ok

\* The embedding write for the chunk with index j was made and succeeded,
\* was made and failed
EmbedOk(j) == \E k \in LogIndexes("embed") : log[k].chunkIndex = j /\ log[k].ok
EmbedFailed(j) == \E k \in LogIndexes("embed") : log[k].chunkIndex = j /\ ~log[k].ok
SaveOk(j) == \E k \in LogIndexes("save") : log[k].chunkIndex = j /\ log[k].ok

\* Each embedding write comes after the creation of its chunk's entry, and
\* the call is abandoned only by a failed create or a failed parent update
EmbedAfterCreate ==
    /\ \A k \in LogIndexes("embed") :
        \E h \in 1..(k - 1) :
            /\ log[h].op = "create"
            /\ log[h].ok
            /\ log[h].chunkIndex = log[k].chunkIndex
            /\ log[h].documentId = log[k].documentId
    /\ (gpc = "threw" /\ Len(chunks) > 1) =>
        /\ log # <<>>
        /\ log[Len(log)].op \in {"create", "link"}
        /\ ~log[Len(log)].ok

\* C20 as claimed: the embedding write of a chunk follows the creation of
\* its entry; when it succeeded the entry has the embeddingId, when it
\* failed the entry has embeddingId null; a failed embedding write stops
\* nothing and the result has one entry per chunk.
C20_EmbedOutcome ==
    /\ EmbedAfterCreate
    /\ GroupReturned =>
        /\ Len(createdChunks) = Len(chunks)
        /\ \A j \in 0..(Len(chunks) - 1) :
            /\ EmbedOk(j) => mirror[CreatedFor(j)].embeddingId # None
            /\ EmbedFailed(j) => mirror[CreatedFor(j)].embeddingId = None

\* C20, amended: the entry has the embeddingId when the embedding write and
\* the update that stores it both succeeded, and embeddingId null when
\* either failed or no embedding write was made.
C20_EmbedAndSaveOutcome ==
    /\ EmbedAfterCreate
    /\ GroupReturned =>
        /\ Len(createdChunks) = Len(chunks)
        /\ \A j \in 0..(Len(chunks) - 1) :
            LET d == CreatedFor(j)
            IN /\ createdChunks[j + 1].documentId = d
               /\ IF EmbedOk(j) /\ SaveOk(j)
                  THEN \E k \in 1..Len(vec) :
                        /\ vec[k].strapiId = Some(d)
                        /\ mirror[d].embeddingId = Some(vec[k].id)
                  ELSE mirror[d].embeddingId = None

C20_Witness ==
    /\ GroupReturned
    /\ Len(chunks) >= 3
    /\ EmbedFailed(0)
    /\ EmbedOk(1) /\ SaveOk(1)
    /\ EmbedOk(2) /\ ~SaveOk(2)
    /\ mirror[CreatedFor(0)].embeddingId = None
    /\ mirror[CreatedFor(1)].embeddingId # None

\* The call has returned, for content that gave one chunk
SingleReturned == gpc = "done" /\ Len(chunks) = 1

\* The entry of the mirror store is as createEmbedding writes it for content
\* that is not chunked: no metadata, hence none of isChunk, chunkIndex,
\* totalChunks and parentDocumentId, and the title without ' [Part i/N]'
PlainRecord(r) ==
    /\ r.metadata = None
    /\ r.title = [base |-> GroupTitle, part |-> 0, of |-> 0]

C27_NothingWithoutConfiguration ==
    ~initialized =>
        /\ chunks = <<>>
        /\ mirror = <<>>
        /\ log = <<>>

\* C28 as claimed: with preprocessing enabled, the entry createEmbedding
\* wrote holds the content as the caller supplied it, and the row written
\* to the vector store holds the preprocessed text.
C28_OriginalContentPreserved ==
    (SingleReturned /\ preprocess) =>
        /\ \A d \in DOMAIN mirror : mirror[d].content = rawContent
        /\ \A k \in 1..Len(vec) : vec[k].content = preprocessContent(rawContent)

\* ===================================================================
\* Properties of pluginManager.createEmbedding
\* ===================================================================

\* The attempts that failed with a message that is not of the rate-limit class
OtherFailures ==
    { k \in 1..Len(rlog) : rlog[k].message # None /\ ~isRateLimit(rlog[k].message[1]) }

\* C26 as claimed: pluginManager.createEmbedding makes at most 3 attempts;
\* every attempt after the first follows an attempt that failed with a
\* rate-limit message and a backoff; an attempt that fails with any other
\* message is the last one and the call throws right after it.
C26_RetryPolicy ==
    /\ Len(rlog) <= 3
    /\ \A k \in 2..Len(rlog) :
        /\ rlog[k - 1].message # None
        /\ isRateLimit(rlog[k - 1].message[1])
        /\ rlog[k - 1].waited > 0
    /\ \A k \in OtherFailures : k = Len(rlog) /\ rpc = "threw"

\* ===================================================================
\* Properties of deleteEmbedding, deleteRelatedChunks and updateEmbedding
\* ===================================================================

\* The call of the given operation has returned
ServiceReturned(name) == spc = "done" /\ Op(name)

\* The call names an entry the mirror store held when the call was made
TargetExists == call # None /\ call[1].id \in DOMAIN entry.mirror

\* The entry d of the store m belongs to a chunk group
IsGroupMember(m, d) == MetadataOf(m[d]) # None /\ MetadataOf(m[d])[1].isChunk

\* The documentId of the anchor of the entry d of the store m
AnchorIn(m, d) == IF ParentOf(m[d]) # None THEN ParentOf(m[d])[1] ELSE d

\* The entries of the store m that share the anchor of d
GroupIn(m, d) == { x \in DOMAIN m : AnchorIn(m, x) = AnchorIn(m, d) }

\* The rows of the vector store v that do not refer to the entry d
RowsOfOthers(v, d) == SelectSeq(v, LAMBDA row : row.strapiId # Some(d))

\* C22: when deleteRelatedChunks returns for the documentId of an entry,
\* no entry of that entry's group is left in the mirror store, neither the
\* anchor nor any entry whose parentDocumentId is the anchor, and every
\* entry outside the group is as it was.
C22_GroupDeletion ==
    (ServiceReturned("deleteRelatedChunks") /\ TargetExists) =>
        LET old == entry.mirror
            group == GroupIn(old, call[1].id)
            anchor == AnchorIn(old, call[1].id)
        IN /\ \A d \in group : d \notin DOMAIN mirror
           /\ anchor \notin DOMAIN mirror
           /\ \A d \in DOMAIN mirror : ParentOf(mirror[d]) # Some(anchor)
           /\ \A d \in DOMAIN old \ group : d \in DOMAIN mirror /\ mirror[d] = old[d]

\* deleteRelatedChunks returned for a chunk that is not the anchor of its
\* group of at least two; the group is gone and the other entries are there
C22_Witness ==
    /\ ServiceReturned("deleteRelatedChunks")
    /\ TargetExists
    /\ IsGroupMember(entry.mirror, call[1].id)
    /\ AnchorIn(entry.mirror, call[1].id) # call[1].id
    /\ Cardinality(GroupIn(entry.mirror, call[1].id)) >= 2
    /\ Cardinality(DOMAIN mirror) >= 2
    /\ DOMAIN mirror = DOMAIN entry.mirror \ GroupIn(entry.mirror, call[1].id)

\* C23 as claimed: when deleteEmbedding returns for a member of a chunk
\* group, no member of that group is left in the mirror store or in the
\* vector store.
C23_DeleteRemovesGroup ==
    (ServiceReturned("deleteEmbedding") /\ TargetExists
        /\ IsGroupMember(entry.mirror, call[1].id)) =>
        \A d \in GroupIn(entry.mirror, call[1].id) :
            /\ d \notin DOMAIN mirror
            /\ \A k \in 1..Len(vec) : vec[k].strapiId # Some(d)

\* updateEmbedding was called for a member of a chunk group with content
\* that fits in chunkSize
InPlaceUpdate ==
    /\ Op("updateEmbedding")
    /\ TargetExists
    /\ IsGroupMember(entry.mirror, call[1].id)
    /\ UpdateContent # None
    /\ ~needsChunking(UpdateContent[1], chunkSize)

C25_Rematerialized ==
    (ServiceReturned("updateEmbedding") /\ TargetExists
        /\ ~IsGroupMember(entry.mirror, call[1].id)
        /\ call[1].autoChunk
        /\ UpdateContent # None
        /\ needsChunking(UpdateContent[1], chunkSize)) =>
        LET new == chunkContent(UpdateContent[1], chunkSize, chunkOverlap)
            created == DOMAIN mirror \ DOMAIN entry.mirror
        IN /\ call[1].id \notin DOMAIN mirror
           /\ \A k \in 1..Len(vec) : vec[k].strapiId # Some(call[1].id)
           /\ Cardinality(created) = Len(new)
           /\ \A j \in 1..Len(new) :
                \E d \in created :
                    /\ mirror[d].content = new[j].text
                    /\ ChunkIndexOf(mirror[d]) = new[j].chunkIndex

\* C30: in deleteRelatedChunks, when the plugin manager is initialized the
\* deletion of an entry from the mirror store comes right after the attempt
\* to delete that entry's rows from the vector store (and without a plugin
\* manager no vector store deletion is attempted); a failed vector store
\* deletion is followed by the deletion of the same entry from the mirror
\* store, and when the call returns every chunk found was deleted from the
\* mirror store, in the order found.
C30_DeleteOrdering ==
    Op("deleteRelatedChunks") =>
        LET mirrorDeletes == { k \in 1..Len(slog) : slog[k].op = "mirrorDelete" }
            vectorDeletes == { k \in 1..Len(slog) : slog[k].op = "vectorDelete" }
        IN /\ initialized =>
                \A k \in mirrorDeletes :
                    /\ k - 1 \in vectorDeletes
                    /\ slog[k - 1].documentId = slog[k].documentId
           /\ ~initialized => vectorDeletes = {}
           /\ \A k \in vectorDeletes :
                /\ \A h \in mirrorDeletes : slog[h].documentId = slog[k].documentId => h > k
                /\ IF k = Len(slog) THEN spc = "mirrorDelete"
                   ELSE k + 1 \in mirrorDeletes /\ slog[k + 1].documentId = slog[k].documentId
           /\ (spc = "done") =>
                /\ Cardinality({ k \in mirrorDeletes : slog[k].ok }) = Len(related)
                /\ \A j \in 1..Len(related) :
                    \E k \in mirrorDeletes :
                        /\ slog[k].ok
                        /\ slog[k].documentId = related[j]
                        /\ Cardinality({ h \in mirrorDeletes : h <= k }) = j

\* deleteRelatedChunks returned for a group of at least two although the
\* vector store deletion of its first chunk failed
C30_Witness ==
    /\ ServiceReturned("deleteRelatedChunks")
    /\ Len(related) >= 2
    /\ slog[1].op = "vectorDelete"
    /\ ~slog[1].ok
    /\ \E k \in 1..Len(vec) : vec[k].strapiId = Some(related[1])
    /\ \A j \in 1..Len(related) : related[j] \notin DOMAIN mirror
\* ---------------------------------------------------------------- C29
\* C29: whatever calls of createEmbedding, createChunkedEmbedding,
\* updateEmbedding, deleteEmbedding, deleteRelatedChunks, syncFromNeon and
\* recreateAllEmbeddings are made one after the other, and whichever of
\* their store and provider calls fail, no two rows of the vector store
\* carry the same metadata.id and no two entries of the mirror store hold
\* the same embeddingId (an entry may hold none); this is so after every
\* call and at every step of a running call
C29_OneToOne ==
    /\ \A a \in 1..Len(vec), b \in 1..Len(vec) :
        (a # b /\ vec[a].strapiId # None) => vec[a].strapiId # vec[b].strapiId
    /\ \A a \in DOMAIN mirror, b \in DOMAIN mirror :
        (a # b /\ mirror[a].embeddingId # None) =>
            mirror[a].embeddingId # mirror[b].embeddingId

\* An updateEmbedding made after other calls has replaced the row of its
\* entry by a new row, and the entry holds the id of the new row
C29_Witness ==
    /\ spc = "done"
    /\ Op("updateEmbedding")
    /\ calls > 0
    /\ \E k \in 1..Len(entry.vec) : entry.vec[k].strapiId = Some(call[1].id)
    /\ \E k \in 1..Len(vec) :
        /\ vec[k].strapiId = Some(call[1].id)
        /\ vec[k].id \notin { entry.vec[j].id : j \in 1..Len(entry.vec) }
        /\ mirror[call[1].id].embeddingId = Some(vec[k].id)
    /\ Cardinality(DOMAIN mirror) > 1

\* ---------------------------------------------------------------- C31
\* C31: createChunkedEmbedding abandons a group of several chunks only when
\* the creation of the chunk-0 entry fails; a failed write of a chunk with
\* chunkIndex > 0 leaves the call running, and the later chunks are written.
C31_OnlyAnchorAborts ==
    /\ (gpc = "threw" /\ Len(chunks) > 1) =>
        /\ log # <<>>
        /\ log[Len(log)].op = "create"
        /\ log[Len(log)].chunkIndex = 0
    /\ \A k \in 1..Len(log) :
        (~log[k].ok /\ log[k].chunkIndex > 0) => gpc # "threw"

\* ---------------------------------------------------------------- C32
\* No load and no write of the running call has failed
NoFailure ==
    /\ result.errors = <<>> \/ \A k \in 1..Len(result.errors) :
                                  result.errors[k].kind = "noStrapiId"
    /\ \A k \in 1..Len(writes) : writes[k].ok

\* The call that has returned is the one made after an abandoned call, and
\* no store call of either failed
ResumedOK ==
    /\ pc = "done"
    /\ prevRun # None
    /\ ~prevRun[1].storeFailure
    /\ NoFailure

\* C32: when a syncFromNeon that applies its writes is abandoned after any
\* of its steps and syncFromNeon is then run to its end with the same
\* options, the mirror store is the one that a single call run to its end
\* from the original stores leaves, and the vector store is the original one.
C32_ResumeEqualsOneRun ==
    ResumedOK =>
        /\ mirror = Synced(prevRun[1].entry.vec, prevRun[1].entry.mirror,
                           options.removeOrphans)
        /\ vec = prevRun[1].entry.vec

\* No two rows of the vector store carry the same metadata.id
DistinctStrapiIds(v) ==
    \A a \in 1..Len(v), b \in 1..Len(v) :
        (a # b /\ v[a].strapiId # None) => v[a].strapiId # v[b].strapiId

\* The same for the stores in which every metadata.id names one row
C32_ResumeWithoutDuplicates ==
    (ResumedOK /\ DistinctStrapiIds(vec)) =>
        /\ mirror = Synced(prevRun[1].entry.vec, prevRun[1].entry.mirror,
                           options.removeOrphans)
        /\ vec = prevRun[1].entry.vec

\* ---------------------------------------------------------------- C33
\* getSyncStatus has returned a status, right after a syncFromNeon that
\* removes orphans and applies its writes returned success
StatusAfterRepair ==
    /\ pc = "done"
    /\ options.removeOrphans
    /\ ~options.dryRun
    /\ result.success
    /\ status # None
    /\ ~status[1].threw

\* C33: when syncFromNeon({removeOrphans: true, dryRun: false}) returns
\* success, a getSyncStatus made right after it reports inSync, with
\* missingInStrapi, missingInNeon and contentDifferences all zero.
C33_RepairedIsInSync ==
    StatusAfterRepair =>
        /\ status[1].value.inSync
        /\ status[1].value.missingInStrapi = 0
        /\ status[1].value.missingInNeon = 0
        /\ status[1].value.contentDifferences = 0

\* The same for the stores in which every metadata.id names one row
C33_RepairedWithoutDuplicates ==
    (StatusAfterRepair /\ DistinctStrapiIds(vec)) => status[1].value.inSync

DeleteCall ==
    /\ pc = "idle"
    /\ \E c \in ServiceCalls(mirror) :
        /\ c.op \in {"deleteEmbedding", "deleteRelatedChunks"}
        /\ ServiceEnter(c)

\* syncFromNeon is called after the call of the embeddings service has
\* returned, with no other call in between
SyncAfterCall ==
    /\ spc = "done"
    /\ \E removeOrphans \in BOOLEAN, dryRun \in BOOLEAN : SyncStart(removeOrphans, dryRun)

NextDeleted ==
    \/ DeleteCall
    \/ deleteEmbedding
    \/ deleteRelatedChunks
    \/ SyncAfterCall
    \/ SyncLoadNeon
    \/ SyncLoadStrapi
    \/ SyncCreate
    \/ SyncKeep
    \/ SyncStep3Done
    \/ SyncRemoveOrphan
    \/ SyncKeepEntry
    \/ SyncStep4Done

\* The stores are those the service has written: every vector row carries a
\* strapiId, and an entry that has a row agrees with it, so that step 3 of
\* syncFromNeon either creates or keeps
SpecDeleted == ServiceInit /\ [][NextDeleted]_vars

\* The entries the returned delete call has deleted from the mirror store
Deleted == IF Op("deleteEmbedding") THEN {call[1].id} ELSE Range(related)

\* C35 as claimed: after deleteEmbedding or deleteRelatedChunks returned,
\* no entry it deleted is in the mirror store again at any step of the
\* syncFromNeon that follows, whether or not the deletion of a vector row
\* failed inside the delete call.
C35_StaysDeleted ==
    (spc = "done" /\ pc # "idle") =>
        \A d \in Deleted : d \notin DOMAIN mirror

\* The same for the delete calls in which no deletion of a vector row failed
C35_StaysDeletedWithItsRow ==
    (/\ spc = "done"
     /\ pc # "idle"
     /\ \A k \in 1..Len(slog) : slog[k].op = "vectorDelete" => slog[k].ok) =>
        \A d \in Deleted : d \notin DOMAIN mirror

\* ===================================================================
\* updateEmbedding, followed by syncFromNeon
\* ===================================================================

\* A call of updateEmbedding
UpdateCall ==
    /\ pc = "idle"
    /\ \E c \in ServiceCalls(mirror) :
        /\ c.op = "updateEmbedding"
        /\ ServiceEnter(c)

NextEdited ==
    \/ UpdateCall
    \/ updateEmbedding
    \/ SyncAfterCall
    \/ SyncLoadNeon
    \/ SyncLoadStrapi
    \/ SyncUpdate
    \/ SyncKeep
    \/ SyncStep3Done
    \/ SyncRemoveOrphan
    \/ SyncKeepEntry
    \/ SyncStep4Done

\* The stores are those the service has written: every vector row carries a
\* strapiId and has its entry, so that step 3 of syncFromNeon either
\* updates or keeps
SpecEdited == ServiceInit /\ [][NextEdited]_vars

\* updateEmbedding of an entry that is not chunked has returned without
\* going through updateChunkedEmbedding and with no call failing, and the
\* syncFromNeon made after it has returned with no call failing; entry
\* holds the stores as the edit left them
EditedThenSynced ==
    /\ spc = "done"
    /\ Op("updateEmbedding")
    /\ pc = "done"
    /\ initialized
    /\ ~Delegated
    /\ \A k \in 1..Len(slog) : slog[k].ok
    /\ \A k \in 1..Len(writes) : writes[k].ok
    /\ result.success

\* C36 as claimed: after an edit of the title, of the content or of both,
\* the next syncFromNeon counts no update for the entry and the entry has
\* the title and the content the edit gave it.
C36_EditSurvives ==
    EditedThenSynced =>
        /\ call[1].id \notin Range(result.details.updated)
        /\ call[1].id \in DOMAIN mirror
        /\ mirror[call[1].id].title = entry.mirror[call[1].id].title
        /\ mirror[call[1].id].content = entry.mirror[call[1].id].content

\* The same for the edits after which the vector row was written again
C36_ContentEditSurvives ==
    (/\ EditedThenSynced
     /\ \E k \in 1..Len(slog) : slog[k].op = "vectorCreate") =>
        /\ call[1].id \notin Range(result.details.updated)
        /\ call[1].id \in DOMAIN mirror
        /\ mirror[call[1].id].title = entry.mirror[call[1].id].title
        /\ mirror[call[1].id].content = entry.mirror[call[1].id].content

\* ===================================================================
\* chunkContent with splitText run step by step, for any chunkSize and
\* chunkOverlap
\* ===================================================================

\* text.slice(from, to): a negative index counts from the end of the text
SliceJs(text, from, to) ==
    LET n == Len(text)
        a == IF from < 0 THEN (IF n + from < 0 THEN 0 ELSE n + from)
             ELSE (IF from > n THEN n ELSE from)
        b == IF to < 0 THEN (IF n + to < 0 THEN 0 ELSE n + to)
             ELSE (IF to > n THEN n ELSE to)
    IN IF b <= a THEN <<>> ELSE SubSeq(text, a + 1, b)

\* The texts handed in: letters and blanks
SplitTexts == { t \in Texts : \A k \in 1..Len(t) : t[k] \in {"a", " "} }

\* The options a caller passes: chunkOverlap may reach or exceed chunkSize
SplitOptions == [chunkSize : 1..MaxChunkSize, chunkOverlap : 0..MaxChunkSize]

\* The chunks a returning splitText pushes are not empty, so there are at
\* most MaxLen of them; a forced split loop that has pushed more has an
\* index that does not advance, and goes on pushing until the process is
\* out of memory
MaxPieces == MaxLen + 1

\* The chunkSize that chunkContent hands to splitText
Budget == chunkSize - chunkOverlap

\* An activation of splitText(text, size, separators) for a text longer
\* than size: its splits, its position in them, chunks, currentChunk, and
\* the index of the forced split loop while that loop runs
Activation(text, separators) ==
    CHOOSE f \in { [splits |-> splitWithSeparator(text, bestSeparator),
                    k |-> 1,
                    remainingSeparators |-> RemainingSeparators(separators, bestSeparator),
                    chunks |-> <<>>,
                    currentChunk |-> <<>>,
                    i |-> None] :
                        bestSeparator \in {BestSeparator(text, separators)} } : TRUE

Top == frames[Len(frames)]

SetTop(f) == [frames EXCEPT ![Len(frames)] = f]

SplitInit ==
    /\ GroupIdle
    /\ ServiceIdle
    /\ RetryIdle
    /\ McpIdle
    /\ initialized = TRUE
    /\ vec = <<>>
    /\ mirror = <<>>
    /\ pc = "idle"
    /\ options = [removeOrphans |-> FALSE, dryRun |-> FALSE]
    /\ neonEmbeddings = <<>>
    /\ strapiEmbeddings = <<>>
    /\ i = 1
    /\ result = EmptyResult(FALSE)
    /\ writes = <<>>
    /\ runs = 0
    /\ prevRun = None
    /\ status = None
    /\ entry = [vec |-> vec, mirror |-> mirror]
    /\ content \in SplitTexts
    /\ \E o \in SplitOptions : chunkSize = o.chunkSize /\ chunkOverlap = o.chunkOverlap
    /\ rawChunks = <<>>
    /\ chunksWithOverlap = <<>>
    /\ chunks = <<>>
    /\ cpc = "idle"
    /\ frames = <<>>

SplitFrame ==
    /\ UNCHANGED <<content, chunkSize, chunkOverlap>>
    /\ UNCHANGED <<syncVars, groupVars, serviceVars, retryVars, mcpVars>>

\* chunkContent up to its call of splitText: an empty or a short content
\* returns at once
SplitEnter ==
    /\ cpc = "idle"
    /\ \E cleanContent \in {Trim(content)} :
          IF cleanContent = <<>> \/ Len(cleanContent) <= chunkSize
          THEN /\ chunks' = IF cleanContent = <<>> THEN <<>>
                            ELSE <<TextChunk(cleanContent, 0, 1, 0, Len(cleanContent))>>
               /\ cpc' = "done"
               /\ UNCHANGED <<rawChunks, chunksWithOverlap, frames>>
          ELSE /\ \E f \in {Activation(cleanContent, DEFAULT_SEPARATORS)} : frames' = <<f>>
               /\ cpc' = "split"
               /\ UNCHANGED <<rawChunks, chunksWithOverlap, chunks>>
    /\ SplitFrame

\* One iteration of for (const split of splits)
SplitPack ==
    /\ cpc = "split"
    /\ Top.i = None
    /\ Top.k <= Len(Top.splits)
    /\ LET f == Top
           split == f.splits[f.k]
           pushed == IF f.currentChunk # <<>> THEN Append(f.chunks, f.currentChunk)
                     ELSE f.chunks
       IN frames' =
            IF Len(f.currentChunk) + Len(split) <= Budget
            THEN SetTop([f EXCEPT !.currentChunk = @ \o split, !.k = @ + 1])
            ELSE IF Len(split) > Budget
            THEN IF Len(f.remainingSeparators) > 0
                 THEN Append(SetTop([f EXCEPT !.chunks = pushed]),
                             Activation(split, f.remainingSeparators))
                 ELSE SetTop([f EXCEPT !.chunks = pushed, !.i = Some(0)])
            ELSE SetTop([f EXCEPT !.chunks = pushed, !.currentChunk = split, !.k = @ + 1])
    /\ UNCHANGED <<rawChunks, chunksWithOverlap, chunks, cpc>>
    /\ SplitFrame

\* One iteration of for (let i = 0; i < split.length; i += chunkSize), or
\* its end; the call does not return from a loop that exhausts the memory
SplitForce ==
    /\ cpc = "split"
    /\ Top.i # None
    /\ LET f == Top
           split == f.splits[f.k]
           at == f.i[1]
       IN IF at < Len(split)
          THEN IF Len(f.chunks) < MaxPieces
               THEN /\ frames' = SetTop([f EXCEPT
                                    !.chunks = Append(@, SliceJs(split, at, at + Budget)),
                                    !.i = Some(at + Budget)])
                    /\ UNCHANGED cpc
               ELSE /\ cpc' = "outOfMemory"
                    /\ UNCHANGED frames
          ELSE /\ frames' = SetTop([f EXCEPT !.i = None, !.currentChunk = <<>>, !.k = @ + 1])
               /\ UNCHANGED cpc
    /\ UNCHANGED <<rawChunks, chunksWithOverlap, chunks>>
    /\ SplitFrame

\* splitText returns its chunks: to the activation that called it, or to
\* chunkContent, which adds the overlap, builds its result and returns
SplitReturn ==
    /\ cpc = "split"
    /\ Top.i = None
    /\ Top.k > Len(Top.splits)
    /\ LET f == Top
           ret == IF f.currentChunk # <<>> THEN Append(f.chunks, f.currentChunk)
                  ELSE f.chunks
       IN IF Len(frames) > 1
          THEN /\ frames' = Append(SubSeq(frames, 1, Len(frames) - 2),
                                   [frames[Len(frames) - 1] EXCEPT
                                        !.chunks = @ \o ret,
                                        !.currentChunk = <<>>,
                                        !.k = @ + 1])
               /\ UNCHANGED <<rawChunks, chunksWithOverlap, chunks, cpc>>
          ELSE /\ frames' = <<>>
               /\ rawChunks' = ret
               /\ chunksWithOverlap' = addOverlap(ret, chunkOverlap)
               /\ chunks' = Renumber(BuildResult(ret, addOverlap(ret, chunkOverlap), 1, 0))
               /\ cpc' = "done"
    /\ SplitFrame

SplitNext ==
    \/ SplitEnter
    \/ SplitPack
    \/ SplitForce
    \/ SplitReturn

SpecSplit == SplitInit /\ [][SplitNext]_vars

\* The call runs on its own thread of control: a step that can be taken is
\* taken
SpecSplitFair == SpecSplit /\ WF_vars(SplitNext)

\* With chunkSize > chunkOverlap the steps return what chunkContent returns
SplitAgrees ==
    (cpc = "done" /\ chunkSize > chunkOverlap) =>
        chunks = chunkContent(content, chunkSize, chunkOverlap)

\* The forced split loop exhausts the memory only with chunkSize <=
\* chunkOverlap, where its index never reaches split.length
SplitExhausts ==
    (cpc = "outOfMemory") =>
        /\ chunkSize <= chunkOverlap
        /\ Top.i # None
        /\ Top.i[1] <= 0

\* C37 as claimed: every call of chunkContent returns, whatever the text,
\* chunkSize and chunkOverlap, chunkSize <= chunkOverlap included.
C37_Terminates == <>(cpc = "done")

\* The same for chunkSize > chunkOverlap
C37_TerminatesWithBudget == (chunkSize > chunkOverlap) => <>(cpc = "done")

\* ===================================================================
\* Two updateEmbedding calls on the same entry, interleaved at their
\* awaits
\* ===================================================================

\* The entry that both calls update: not chunked, with its vector row
Shared == DocumentIdPool[1]

\* The contents the callers pass: they fit in chunkSize and differ from
\* the stored one
UpdaterTexts == {Letters(2), <<" ", "a", "a", "a">>}

\* A call updateEmbedding(Shared, {data: {title, content: text}}) about to
\* start: its position, its arguments after preprocessing, and its locals
\* currentEntry and result.embeddingId; inTurn tells whether it started
\* after the other call had ended, failed whether one of its calls failed
Updater(title, text) ==
    [at |-> "find", title |-> title, content |-> preprocessContent(text),
     currentEntry |-> None, embeddingId |-> None, inTurn |-> FALSE, failed |-> FALSE]

ConcurrentInit ==
    /\ ChunkerIdle
    /\ GroupIdle
    /\ RetryIdle
    /\ McpIdle
    /\ initialized \in BOOLEAN
    /\ \E s \in {Embedded(Shared :> MirrorRecord(Shared, formatChunkTitle(GroupTitle, 0, 1),
                                                 Letters(1), None, None),
                          <<>>, {Shared}, 1)} :
          mirror = s.mirror /\ vec = s.vec
    /\ pc = "idle"
    /\ options = [removeOrphans |-> FALSE, dryRun |-> FALSE]
    /\ neonEmbeddings = <<>>
    /\ strapiEmbeddings = <<>>
    /\ i = 1
    /\ result = EmptyResult(FALSE)
    /\ writes = <<>>
    /\ runs = 0
    /\ prevRun = None
    /\ status = None
    /\ entry = [vec |-> vec, mirror |-> mirror]
    /\ spc = "idle"
    /\ call = None
    /\ related = <<>>
    /\ sk = 1
    /\ slog = <<>>
    /\ calls = 0
    /\ updaters \in [1..2 -> { Updater(t, c) : t \in {None, Some("u")}, c \in UpdaterTexts }]

\* What no step of the two calls changes
UpdaterFrame ==
    UNCHANGED <<initialized, pc, options, neonEmbeddings, strapiEmbeddings, i,
                result, writes, runs, prevRun, status, entry, chunkerVars,
                groupVars, retryVars, mcpVars, spc, call, related, sk, slog, calls>>

\* The call of p moves to position at, having failed or not
Moved(p, at, ok) ==
    [updaters EXCEPT ![p].at = at, ![p].failed = @ \/ ~ok]

\* findOne: it throws when the read fails; the entry is not chunked and
\* autoChunk is off, so the call does not go to updateChunkedEmbedding
UpdaterFindOne(p) ==
    /\ updaters[p].at = "find"
    /\ \E ok \in BOOLEAN :
        updaters' = IF ok
                    THEN [updaters EXCEPT ![p].at = "entityUpdate",
                                          ![p].currentEntry = Some(mirror[Shared]),
                                          ![p].inTurn = updaters[3 - p].at \in {"done", "threw"}]
                    ELSE Moved(p, "threw", FALSE)
    /\ UNCHANGED <<vec, mirror>>
    /\ UpdaterFrame

\* strapi.documents(uid).update({documentId: id, data: updateData}); the
\* vector store follows if (contentChanged && pluginManager.isInitialized())
UpdaterEntity(p) ==
    /\ updaters[p].at = "entityUpdate"
    /\ \E ok \in BOOLEAN :
        IF ok
        THEN /\ mirror' = [mirror EXCEPT
                    ![Shared].title = UpdatedTitle(@, updaters[p].title, FALSE),
                    ![Shared].content = updaters[p].content]
             /\ updaters' = Moved(p, IF /\ initialized
                                        /\ updaters[p].content # updaters[p].currentEntry[1].content
                                     THEN "vectorDelete" ELSE "done", TRUE)
        ELSE /\ updaters' = Moved(p, "threw", FALSE)
             /\ UNCHANGED mirror
    /\ UNCHANGED vec
    /\ UpdaterFrame

\* pluginManager.deleteEmbedding(id); a failure goes to the catch
UpdaterVectorDelete(p) ==
    /\ updaters[p].at = "vectorDelete"
    /\ \E ok \in BOOLEAN :
        /\ vec' = IF ok THEN VecDelete(vec, Shared) ELSE vec
        /\ updaters' = Moved(p, IF ok THEN "vectorCreate" ELSE "done", ok)
    /\ UNCHANGED mirror
    /\ UpdaterFrame

\* pluginManager.createEmbedding({id, title: title || currentEntry.title,
\* content, ...}); a failure goes to the catch
UpdaterVectorCreate(p) ==
    /\ updaters[p].at = "vectorCreate"
    /\ \E ok \in BOOLEAN :
        IF ok
        THEN /\ vec' = VecInsert(vec, mirror, Shared,
                                 UpdatedTitle(updaters[p].currentEntry[1].title,
                                              updaters[p].title, FALSE),
                                 updaters[p].content)
             /\ updaters' = [updaters EXCEPT ![p].at = "save",
                                             ![p].embeddingId = Some(NextVecId(vec, mirror))]
        ELSE /\ updaters' = Moved(p, "done", FALSE)
             /\ UNCHANGED vec
    /\ UNCHANGED mirror
    /\ UpdaterFrame

\* The update that stores result.embeddingId; a failure goes to the catch
UpdaterSave(p) ==
    /\ updaters[p].at = "save"
    /\ \E ok \in BOOLEAN :
        /\ mirror' = IF ok THEN MirrorUpdateEmbeddingId(mirror, Shared, updaters[p].embeddingId)
                     ELSE mirror
        /\ updaters' = Moved(p, "done", ok)
    /\ UNCHANGED vec
    /\ UpdaterFrame

\* Either call takes its next step
ConcurrentNext ==
    \E p \in 1..2 :
        \/ UpdaterFindOne(p)
        \/ UpdaterEntity(p)
        \/ UpdaterVectorDelete(p)
        \/ UpdaterVectorCreate(p)
        \/ UpdaterSave(p)

SpecConcurrent == ConcurrentInit /\ [][ConcurrentNext]_vars

\* Both calls have returned, each changed the content, and none of their
\* store and provider calls failed
BothReturned ==
    /\ initialized
    /\ \A p \in 1..2 :
        /\ updaters[p].at = "done"
        /\ ~updaters[p].failed
        /\ updaters[p].embeddingId # None

\* One row carries metadata.id Shared, and the entry's content, its
\* embeddingId and the row's content are those of one of the two calls
OneWriterWon ==
    LET rows == { k \in 1..Len(vec) : vec[k].strapiId = Some(Shared) }
    IN /\ Cardinality(rows) = 1
       /\ \E p \in 1..2 :
            /\ mirror[Shared].content = updaters[p].content
            /\ mirror[Shared].embeddingId = updaters[p].embeddingId
            /\ \A k \in rows : /\ vec[k].content = updaters[p].content
                               /\ Some(vec[k].id) = updaters[p].embeddingId

\* C38 as claimed: after two updateEmbedding calls that change the content
\* of the same entry, interleaved in any way at their store calls, one
\* vector row carries the entry's documentId, and the entry's content, its
\* embeddingId and the row's content come from the same call.
C38_LastWriteWins == BothReturned => OneWriterWon

\* The same for two calls of which one started after the other had ended
C38_InTurn ==
    (BothReturned /\ \E p \in 1..2 : updaters[p].inTurn) => OneWriterWon

\* The result recreateAllEmbeddings returns, from the calls it made:
\* processedFromStrapi is set after findMany, recreatedInNeon counts the
\* entries whose new embeddingId was stored, details.failed lists the
\* entries without content and those whose calls failed, errors holds
\* every failure but the entries without content, and success is
\* errors.length === 0 on both paths that set it
RecreateResult ==
    LET at == 1..Len(slog)
        failed == { k \in at : \/ slog[k].op = "noContent"
                               \/ slog[k].op \in {"vectorCreate", "save"} /\ ~slog[k].ok }
        errors == { k \in at : slog[k].op # "noContent" /\ ~slog[k].ok }
    IN [success |-> errors = {},
        processedFromStrapi |-> Len(strapiEmbeddings),
        recreatedInNeon |-> Cardinality({ k \in at : slog[k].op = "save" /\ slog[k].ok }),
        errors |-> Cardinality(errors),
        failed |-> Cardinality(failed)]

\* recreateAllEmbeddings has returned
Recreated == spc = "done" /\ Op("recreateAllEmbeddings")

\* Every entry has a vector row that carries its documentId and that its
\* embeddingId refers to
AllEmbedded ==
    \A d \in DOMAIN mirror :
        /\ mirror[d].embeddingId # None
        /\ \E k \in 1..Len(vec) : /\ vec[k].strapiId = Some(d)
                                  /\ Some(vec[k].id) = mirror[d].embeddingId

\* C39 as claimed: a result of recreateAllEmbeddings with success true
\* means that every entry has its vector row and the embeddingId of that
\* row, and in every result processedFromStrapi is recreatedInNeon plus the
\* length of details.failed.
C39_RecreateResult ==
    Recreated =>
        /\ RecreateResult.success => AllEmbedded
        /\ RecreateResult.processedFromStrapi
              = RecreateResult.recreatedInNeon + RecreateResult.failed

\* The counts alone
C39_Counts ==
    Recreated =>
        RecreateResult.processedFromStrapi
            = RecreateResult.recreatedInNeon + RecreateResult.failed

\* Success for the runs that met no entry without content
C39_SuccessWithContent ==
    (/\ Recreated
     /\ RecreateResult.success
     /\ \A k \in 1..Len(slog) : slog[k].op # "noContent") => AllEmbedded

\* ===================================================================
\* The MCP controller: one request after the other
\* ===================================================================

\* The values of randomUUID() and of the mcp-session-id header
SessionIds == {"s1", "s2", "s3"}

\* plugin.sessions.delete(key); the key undefined deletes nothing
SessionsDelete(map, key) ==
    IF key = None THEN map
    ELSE [s \in DOMAIN map \ {key[1]} |-> map[s]]

\* cleanupExpiredSessions
CleanedUp(map) ==
    [s \in { x \in DOMAIN map : ~map[x].expired } |-> map[s]]

McpInit ==
    /\ ChunkerIdle
    /\ GroupIdle
    /\ ServiceIdle
    /\ RetryIdle
    /\ initialized = TRUE
    /\ vec = <<>>
    /\ mirror = <<>>
    /\ pc = "idle"
    /\ options = [removeOrphans |-> FALSE, dryRun |-> FALSE]
    /\ neonEmbeddings = <<>>
    /\ strapiEmbeddings = <<>>
    /\ i = 1
    /\ result = EmptyResult(FALSE)
    /\ writes = <<>>
    /\ runs = 0
    /\ prevRun = None
    /\ status = None
    /\ entry = [vec |-> vec, mirror |-> mirror]
    /\ sessions = <<>>
    /\ mcp \in { NoRequest(available) : available \in BOOLEAN }

McpFrame ==
    UNCHANGED <<syncVars, chunkerVars, groupVars, serviceVars, retryVars>>

\* A request arrives, with or without the mcp-session-id header; since the
\* last request any session may have passed SESSION_TIMEOUT_MS
McpReceive ==
    /\ mcp.at \in {"idle", "replied"}
    /\ \E header \in {None} \cup { Some(s) : s \in SessionIds },
          old \in SUBSET DOMAIN sessions :
        /\ sessions' = [s \in DOMAIN sessions |->
                            [expired |-> sessions[s].expired \/ s \in old]]
        /\ mcp' = [NoRequest(mcp.available) EXCEPT
                        !.at = "lookup", !.header = header, !.before = DOMAIN sessions]
    /\ McpFrame

\* handle, up to the call of transport.handleRequest: the 503 reply, the
\* occasional cleanup, the lookup of the session, the removal of an
\* expired one, the 400 reply for a session id without session, and the
\* creation of a session, whose server.connect may throw
McpLookup ==
    /\ mcp.at = "lookup"
    /\ IF ~mcp.available
       THEN /\ mcp' = [mcp EXCEPT !.at = "replied", !.status = 503]
            /\ UNCHANGED sessions
       ELSE \E cleanup \in BOOLEAN, connected \in BOOLEAN, sessionId \in SessionIds :
            LET cleaned == IF cleanup THEN CleanedUp(sessions) ELSE sessions
                found == mcp.header # None /\ mcp.header[1] \in DOMAIN cleaned
                expired == found /\ cleaned[mcp.header[1]].expired
                kept == IF expired THEN SessionsDelete(cleaned, mcp.header) ELSE cleaned
            IN IF mcp.header # None /\ (~found \/ expired)
               THEN /\ sessions' = kept
                    /\ mcp' = [mcp EXCEPT !.at = "replied", !.status = 400]
               ELSE IF found
               THEN /\ sessions' = kept
                    /\ mcp' = [mcp EXCEPT !.at = "transport", !.session = mcp.header]
               ELSE /\ sessionId \notin DOMAIN sessions
                    /\ IF connected
                       THEN /\ sessions' = (sessionId :> [expired |-> FALSE]) @@ kept
                            /\ mcp' = [mcp EXCEPT !.at = "transport",
                                                  !.session = Some(sessionId),
                                                  !.created = TRUE]
                       ELSE /\ sessions' = kept
                            /\ mcp' = [mcp EXCEPT !.at = "replied", !.status = 500]
    /\ McpFrame

\* await session.transport.handleRequest(...): when it throws, the server
\* is closed, plugin.sessions.delete(requestedSessionId) is called and the
\* reply is 400
McpTransport ==
    /\ mcp.at = "transport"
    /\ \E ok \in BOOLEAN :
        IF ok
        THEN /\ mcp' = [mcp EXCEPT !.at = "replied", !.status = 200]
             /\ UNCHANGED sessions
        ELSE /\ sessions' = SessionsDelete(sessions, mcp.header)
             /\ mcp' = [mcp EXCEPT !.at = "replied", !.status = 400,
                                   !.transportError = TRUE]
    /\ McpFrame

McpNext ==
    \/ McpReceive
    \/ McpLookup
    \/ McpTransport

SpecMcp == McpInit /\ [][McpNext]_vars

\* The handler has returned after transport.handleRequest threw
TransportFailed == mcp.at = "replied" /\ mcp.transportError

\* The handler has returned for a request whose session id named no
\* session, or an expired one
Rejected ==
    /\ mcp.at = "replied"
    /\ mcp.available
    /\ mcp.header # None
    /\ mcp.session = None

\* C40 as claimed: when transport.handleRequest throws, the session that
\* served the request is not in plugin.sessions when the handler returns,
\* whether it was looked up from the header or created by the request; and
\* a request with a session id that names no session, or an expired one,
\* is answered 400 and creates no session.
C40_SessionCleanup ==
    /\ TransportFailed => mcp.session[1] \notin DOMAIN sessions
    /\ Rejected => (mcp.status = 400 /\ DOMAIN sessions \subseteq mcp.before)

\* The same for the sessions looked up from the header
C40_HeaderSessionCleanup ==
    /\ (TransportFailed /\ ~mcp.created) => mcp.session[1] \notin DOMAIN sessions
    /\ Rejected => (mcp.status = 400 /\ DOMAIN sessions \subseteq mcp.before)

====
